---- MODULE Spec2Model ----
(***************************************************************************)
(* offloadmq: a capability-routed task broker.                             *)
(*                                                                         *)
(* State machine of the task-dispatch core:                                *)
(*   - the in-memory urgent task store (src/mq/urgent.rs) with its         *)
(*     per-task watch channel and its 10 s sweeper,                        *)
(*   - the blocking urgent submitter and the scheduler functions           *)
(*     (src/mq/scheduler.rs),                                              *)
(*   - the durable task store (src/db/persistent_task_storage.rs),         *)
(*   - the agent registry as far as the scheduler reads it.                *)
(*                                                                         *)
(* Time is counted in seconds.  Handlers are split into steps exactly at   *)
(* the points where they release the urgent map lock or finish one sled    *)
(* call, so that every interleaving of the real handlers is a behaviour.   *)
(***************************************************************************)
EXTENDS Integers, Sequences, FiniteSets, TLC

----------------------------------------------------------------------------
(* Bounds of the model *)

NumTasks == 3
NumUrgent == 1
NumDurable == 1
MaxTier == 2
NumAgents == 2
MaxTime == 80
MaxSubmitTime == 10
MaxLog == 1
MaxDurableTime == 604801
MaxAssignedAt == 2
MaxOnlineTime == 131
NumProcs == 2
NumKeys == 2
MaxStrLen == 2
MaxPatterns == 2
NumMessages == 8

(* Program constants *)

UrgentTtl == 60
SweepPeriod == 10
OnlineTimeout == 120
ArchiveAge == 604800

TaskNums == 1..NumTasks
UrgentNums == {n \in TaskNums : n <= NumUrgent}
DurableNums == {n \in TaskNums : n <= NumDurable}
Tiers == 0..MaxTier
Agents == 1..NumAgents
Procs == 1..NumProcs

----------------------------------------------------------------------------
(* Strings are sequences of characters, so that key formatting and prefix  *)
(* scans are computed as the code computes them.                           *)

Sep == "|"
CapA == <<"a">>
CapAB == <<"a", "|", "b">>
Caps == {CapA, CapAB}

Digits == <<"1", "2", "3", "4", "5", "6", "7", "8", "9">>
IdStr(n) == <<Digits[n]>>

TaskIdSet == [cap : Caps, id : TaskNums]

Payloads == {"o1"}
LogUpdates == {<<"l">>}

None == <<>>
Some(x) == <<x>>
IsSome(o) == o # <<>>
Unwrap(o) == o[1]

Terminal(status) == status \in {"Completed", "Failed"}

----------------------------------------------------------------------------
VARIABLES
  tasks,        \* UrgentTaskStore.tasks: the IndexMap, as a sequence of entries
  chan,         \* TaskState.notify of each submission: the watch channel
  sub,          \* the submitter of each task: its position in submit_urgent_task
  ag,           \* each agent's request in flight
  agentdb,      \* the agent registry (durable map of Agent records)
  now,          \* the wall clock, in seconds
  nextSweep,    \* the next tick of the sweeper's interval
  unassigned,   \* TaskStorage.unassigned: the tree tasks_unassigned, key -> task
  assigned,     \* TaskStorage.assigned: the tree tasks_assigned, key -> task
  archived,     \* TaskStorage.archived: the tree tasks_archived, key -> task
  arch,         \* the archival run in flight: archive_stale_tasks
  winners,      \* history: per task, the agents whose pick-up succeeded
  losers,       \* history: per regular task, the agents whose pick-up got Conflict
  shrunk,       \* history: a tier increase has taken a task from another agent
  sled_db,      \* CachedAgentStorage.db: the sled map uid -> Agent
  agent_cache,  \* CachedAgentStorage.agent_cache: uid -> Agent
  areq,         \* each caller's CachedAgentStorage call in flight
  deleted,      \* history: per uid, delete_agent has returned
  keys_active,  \* ApiKeysStorage.active: the tree api_keys_active
  keys_archived, \* ApiKeysStorage.archived: the tree api_keys_archived
  kreq,         \* the revocation in flight: revoke_client_api_key
  probe         \* a call of a pure function: its arguments and its result

urgentVars == <<tasks, chan, nextSweep>>
durableVars == <<unassigned, assigned, archived, arch>>
adminVars == <<sled_db, agent_cache, areq, deleted, keys_active, keys_archived, kreq, probe>>
brokerVars == <<tasks, chan, sub, ag, agentdb, now, nextSweep,
                unassigned, assigned, archived, arch, winners, losers, shrunk>>
vars == <<tasks, chan, sub, ag, agentdb, now, nextSweep,
          unassigned, assigned, archived, arch, winners, losers, shrunk,
          sled_db, agent_cache, areq, deleted, keys_active, keys_archived, kreq, probe>>

----------------------------------------------------------------------------
(* Agent registry *)

(* An online test that excludes the timeout itself. *)
is_online_strict(agent, t) ==
  IF IsSome(agent.last_contact)
  THEN t - Unwrap(agent.last_contact) < OnlineTimeout
  ELSE FALSE

is_online(agent, t) ==
  IF IsSome(agent.last_contact)
  THEN t - Unwrap(agent.last_contact) <= OnlineTimeout
  ELSE FALSE

list_all_agents(db) == {db[a] : a \in DOMAIN db}

update_agent_last_contact(db, a, t) == [db EXCEPT ![a].last_contact = Some(t)]

(* A gate that counts offline agents too. *)
has_agents_for(cap, db, t) ==
  \E agent \in list_all_agents(db) : cap \in agent.capabilities

has_potential_agents_for(cap, db, t) ==
  \E agent \in list_all_agents(db) : cap \in agent.capabilities /\ is_online(agent, t)

----------------------------------------------------------------------------
(* tokio::sync::watch, as used by TaskState.notify *)

watch_channel(init) == [val |-> init, rx |-> 0, unseen |-> FALSE]

watch_send(ch, v) ==
  IF ch.rx = 0 THEN ch ELSE [ch EXCEPT !.val = v, !.unseen = TRUE]

watch_subscribe(ch) == [ch EXCEPT !.rx = @ + 1, !.unseen = FALSE]

watch_drop(ch) == [ch EXCEPT !.rx = 0, !.unseen = FALSE]

----------------------------------------------------------------------------
(* Models *)

TaskStatusDefault == "Pending"

assign_to(task, agent_id, t) ==
  [id |-> task.id, agent_id |-> agent_id, status |-> TaskStatusDefault,
   created_at |-> task.created_at, assigned_at |-> t, result |-> None,
   log |-> <<>>]

----------------------------------------------------------------------------
(* Urgent task store *)

IndexOf(store, task_id) ==
  IF \E i \in 1..Len(store) : store[i].task.id = task_id
  THEN CHOOSE i \in 1..Len(store) : store[i].task.id = task_id
  ELSE 0

Contains(store, task_id) == IndexOf(store, task_id) # 0

(* A removal that moves the last entry into the hole. *)
swap_remove(store, task_id) ==
  LET i == IndexOf(store, task_id)
      n == Len(store)
  IN IF i = 0 THEN store
     ELSE IF i = n THEN SubSeq(store, 1, n - 1)
     ELSE [SubSeq(store, 1, n - 1) EXCEPT ![i] = store[n]]

shift_remove(store, task_id) ==
  SelectSeq(store, LAMBDA e : e.task.id # task_id)

(* A lookup that offers every entry with a matching capability. *)
find_any_with_capabilities(store, caps) ==
  LET hits == {i \in 1..Len(store) : store[i].task.id.cap \in caps}
  IN IF hits = {} THEN None
     ELSE Some(store[CHOOSE i \in hits : \A j \in hits : i <= j].task)

find_with_capabilities(store, caps) ==
  LET hits == {i \in 1..Len(store) :
                 store[i].assigned_task = None /\ store[i].task.id.cap \in caps}
  IN IF hits = {} THEN None
     ELSE Some(store[CHOOSE i \in hits : \A j \in hits : i <= j].task)

add_task(store, task, ttl_secs, t) ==
  LET entry == [task |-> task, assigned_task |-> None, status |-> "Pending",
                created_at |-> t, ttl |-> ttl_secs]
      i == IndexOf(store, task.id)
  IN IF i = 0 THEN Append(store, entry) ELSE [store EXCEPT ![i] = entry]

assign_task(store, ch, task_id, agent, t) ==
  LET i == IndexOf(store, task_id) IN
  IF i = 0 THEN [tasks |-> store, chan |-> ch, ret |-> FALSE]
  ELSE
    LET entry == [store[i] EXCEPT
                    !.assigned_task = Some(assign_to(store[i].task, agent, t))]
    IN IF entry.status = "Pending"
       THEN [tasks |-> [store EXCEPT ![i] = [entry EXCEPT !.status = "Assigned"]],
             chan |-> [ch EXCEPT ![task_id.id] = watch_send(@, "Assigned")],
             ret |-> TRUE]
       ELSE [tasks |-> [store EXCEPT ![i] = entry], chan |-> ch, ret |-> FALSE]

(* A completion that does not require the entry to be assigned. *)
complete_task_unchecked(store, ch, task_id, success, payload) ==
  LET i == IndexOf(store, task_id) IN
  IF i = 0 THEN [tasks |-> store, chan |-> ch, err |-> "none"]
  ELSE
    LET status == IF success THEN "Completed" ELSE "Failed"
        done == IF store[i].assigned_task = None THEN None
                ELSE Some([Unwrap(store[i].assigned_task) EXCEPT !.result = Some(payload)])
    IN [tasks |-> [store EXCEPT ![i] = [@ EXCEPT !.assigned_task = done,
                                                 !.status = status]],
        chan |-> [ch EXCEPT ![task_id.id] = watch_send(@, status)],
        err |-> "none"]

complete_task(store, ch, task_id, success, payload) ==
  LET i == IndexOf(store, task_id) IN
  IF i = 0 THEN [tasks |-> store, chan |-> ch, err |-> "none"]
  ELSE IF store[i].assigned_task = None
  THEN [tasks |-> store, chan |-> ch, err |-> "Conflict"]
  ELSE
    LET status == IF success THEN "Completed" ELSE "Failed"
        done == [Unwrap(store[i].assigned_task) EXCEPT !.result = Some(payload)]
    IN [tasks |-> [store EXCEPT ![i] = [@ EXCEPT !.assigned_task = Some(done),
                                                 !.status = status]],
        chan |-> [ch EXCEPT ![task_id.id] = watch_send(@, status)],
        err |-> "none"]

(* An expiry test that ignores the status. *)
ExpiredAnyStatus(entry, t) == t - entry.created_at > entry.ttl

(* An expiry test that allows one more sweep period. *)
ExpiredLate(entry, t) ==
  entry.status = "Pending" /\ t - entry.created_at > entry.ttl + SweepPeriod

Expired(entry, t) == entry.status = "Pending" /\ t - entry.created_at > entry.ttl

RECURSIVE remove_all(_, _)
remove_all(store, ids) ==
  IF ids = <<>> THEN store
  ELSE remove_all(shift_remove(store, Head(ids).task.id), Tail(ids))

expire_tasks(store, ch, t) ==
  LET to_remove == SelectSeq(store, LAMBDA e : Expired(e, t))
      nums == {to_remove[i].task.id.id : i \in 1..Len(to_remove)}
  IN [tasks |-> remove_all(store, to_remove),
      chan |-> [n \in DOMAIN ch |->
                  IF n \in nums THEN watch_send(ch[n], "Failed") ELSE ch[n]]]

get_assigned_task(store, task_id) ==
  LET i == IndexOf(store, task_id) IN
  IF i = 0 THEN None ELSE store[i].assigned_task

(* The second half of try_pick_up_urgent_task, run after assign_task has   *)
(* returned true: the assigned task read back from the store, or Conflict. *)
try_pick_up_urgent_get(store, uid) ==
  LET task_opt == get_assigned_task(store, uid) IN
  IF IsSome(task_opt) THEN [err |-> "none", picked |-> task_opt]
  ELSE [err |-> "Conflict", picked |-> None]

(* A removal that leaves the store as it is. *)
keep_task(store, task_id) == store

remove_task(store, task_id) == shift_remove(store, task_id)

----------------------------------------------------------------------------
(* Durable task store: three sled trees, each a map from key to value.     *)
(* Every sled call (get, insert, remove, one scan) is atomic.              *)

EmptyTree == <<>>

tree_insert(tree, k, v) ==
  [x \in (DOMAIN tree) \cup {k} |-> IF x = k THEN v ELSE tree[x]]

tree_remove(tree, k) == [x \in (DOMAIN tree) \ {k} |-> tree[x]]

tree_get(tree, k) == IF k \in DOMAIN tree THEN Some(tree[k]) ELSE None

make_key(id) == id.cap \o <<Sep>> \o IdStr(id.id)

IsPrefix(p, s) == Len(p) <= Len(s) /\ SubSeq(s, 1, Len(p)) = p

Alphabet == <<"1", "2", "3", "4", "5", "6", "7", "8", "9", "a", "b", "|">>
Ord(c) == CHOOSE i \in 1..Len(Alphabet) : Alphabet[i] = c

RECURSIVE LexLess(_, _)
LexLess(x, y) ==
  IF x = <<>> THEN y # <<>>
  ELSE IF y = <<>> THEN FALSE
  ELSE IF Head(x) = Head(y) THEN LexLess(Tail(x), Tail(y))
  ELSE Ord(Head(x)) < Ord(Head(y))

FirstKey(keys) == CHOOSE k \in keys : \A j \in keys \ {k} : LexLess(k, j)

add_unassigned(un, task) == tree_insert(un, make_key(task.id), task)

(* A first step that reads the unassigned entry and leaves it in place. *)
durable_assign_peek(un, id) ==
  [unassigned |-> un, value |-> tree_get(un, make_key(id))]

(* assign_task of the durable store is two sled calls: the remove from     *)
(* unassigned, then the insert into assigned.                              *)
durable_assign_remove(un, id) ==
  LET key == make_key(id) IN
  [unassigned |-> IF key \in DOMAIN un THEN tree_remove(un, key) ELSE un,
   value |-> tree_get(un, key)]

durable_assign_insert(asg, value, agent_id, t) ==
  tree_insert(asg, make_key(value.id), assign_to(value, agent_id, t))

get_unassigned(un, id) == tree_get(un, make_key(id))

get_assigned(asg, id) == tree_get(asg, make_key(id))

update_assigned(asg, task) == tree_insert(asg, make_key(task.id), task)

list_unassigned_for_capability(un, capability) ==
  {un[k] : k \in {x \in DOMAIN un : IsPrefix(capability \o <<Sep>>, x)}}

list_unassigned_with_caps(un, caps) ==
  UNION {list_unassigned_for_capability(un, c) : c \in caps}

(* Scheduler: which regular tasks a poll offers *)

all_online_agents_for(cap, db, t) ==
  {agent \in list_all_agents(db) : cap \in agent.capabilities /\ is_online(agent, t)}

Max(S) == CHOOSE x \in S : \A y \in S : y <= x

top_online_tier(cap, db, t) ==
  LET tiers == {agent.tier : agent \in all_online_agents_for(cap, db, t)} IN
  IF tiers = {} THEN 0 ELSE Max(tiers)

(* A suppression rule with the comparison turned around. *)
find_assignable_reversed(un, caps, tier, db, t) ==
  {task \in list_unassigned_with_caps(un, caps) :
     ~(top_online_tier(task.id.cap, db, t) < tier)}

(* A suppression rule that also hides a task from agents of the top tier. *)
find_assignable_below_top(un, caps, tier, db, t) ==
  {task \in list_unassigned_with_caps(un, caps) :
     ~(top_online_tier(task.id.cap, db, t) >= tier)}

find_assignable_regular(un, caps, tier, db, t) ==
  {task \in list_unassigned_with_caps(un, caps) :
     ~(top_online_tier(task.id.cap, db, t) > tier)}

-----------------------------------------------------------------------------
(* Client API keys: ApiKeysStorage *)

ClientKey(n) == <<"k", Digits[n]>>
KeyIds == {ClientKey(n) : n \in 1..NumKeys}
PredefinedKeys == {ClientKey(1)}

Star == <<"*">>
AStar == <<"a", "*">>

ends_with(s, c) == Len(s) > 0 /\ s[Len(s)] = c

starts_with(s, p) == IsPrefix(p, s)

(* A match that takes a pattern without "*" as a prefix too. *)
pattern_matches_prefix(cap, required_cap) ==
  IF cap = Star THEN TRUE
  ELSE IF ends_with(cap, "*")
  THEN starts_with(required_cap, SubSeq(cap, 1, Len(cap) - 1))
  ELSE starts_with(required_cap, cap)

(* One turn of the loop in has_capability. *)
pattern_matches(cap, required_cap) ==
  IF cap = Star THEN TRUE
  ELSE IF ends_with(cap, "*")
  THEN starts_with(required_cap, SubSeq(cap, 1, Len(cap) - 1))
  ELSE cap = required_cap

RECURSIVE has_capability_from(_, _, _)
has_capability_from(key_capabilities, i, required_cap) ==
  IF i > Len(key_capabilities) THEN FALSE
  ELSE IF pattern_matches(key_capabilities[i], required_cap) THEN TRUE
  ELSE has_capability_from(key_capabilities, i + 1, required_cap)

has_capability(key_capabilities, required_cap) ==
  has_capability_from(key_capabilities, 1, required_cap)

find_active(act, id) == tree_get(act, id)

(* A check that does not look at is_revoked. *)
verify_key_any(act, key, cap) ==
  LET key_descr == find_active(act, key) IN
  IF IsSome(key_descr) /\ has_capability(Unwrap(key_descr).capabilities, cap)
  THEN "ok" ELSE "Authorization"

verify_key(act, key, cap) ==
  LET key_descr == find_active(act, key) IN
  IF IsSome(key_descr)
     /\ ~Unwrap(key_descr).is_revoked
     /\ has_capability(Unwrap(key_descr).capabilities, cap)
  THEN "ok" ELSE "Authorization"

upsert_key(act, id, key) == tree_insert(act, id, key)

initialize_from_list(act, keys) ==
  [k \in DOMAIN act \cup keys |->
     IF k \in keys
     THEN [key |-> k, capabilities |-> <<Star>>, is_predefined |-> TRUE,
           is_revoked |-> FALSE]
     ELSE act[k]]

(* Polls: the set of responses the handler can give, the regular one      *)
(* being picked at random.                                                 *)

fetch_task_urgent_handler(store, db, a, t) ==
  LET stamped == update_agent_last_contact(db, a, t) IN
  [agentdb |-> stamped,
   offers |-> {find_with_capabilities(store, stamped[a].capabilities)}]

(* A poll that looks at the regular queue first. *)
fetch_task_regular_first(store, un, db, a, t) ==
  LET stamped == update_agent_last_contact(db, a, t)
      caps == stamped[a].capabilities
      urgent == find_with_capabilities(store, caps)
      all == find_assignable_regular(un, caps, stamped[a].tier, stamped, t)
  IN [agentdb |-> stamped,
      offers |-> IF all # {} THEN {Some(task) : task \in all} ELSE {urgent}]

fetch_task_non_urgent_handler(store, un, db, a, t) ==
  LET stamped == update_agent_last_contact(db, a, t)
      caps == stamped[a].capabilities
      urgent == find_with_capabilities(store, caps)
      all == find_assignable_regular(un, caps, stamped[a].tier, stamped, t)
  IN [agentdb |-> stamped,
      offers |-> IF IsSome(urgent) THEN {urgent}
                 ELSE IF all # {} THEN {Some(task) : task \in all}
                 ELSE {None}]

(* A staleness test that takes the cutoff itself as stale. *)
StaleInclusive(task, t) == task.status # "Running" /\ task.assigned_at <= t - ArchiveAge

Stale(task, t) == task.status # "Running" /\ task.assigned_at < t - ArchiveAge

archive_scan(asg, t) ==
  [k \in {x \in DOMAIN asg : Stale(asg[x], t)} |-> asg[k]]

----------------------------------------------------------------------------
(* Initial state: empty stores, and a registry that already holds the      *)
(* agents (it is loaded from the durable map at start-up).                 *)

Registry0 ==
  [a \in Agents |->
     IF a = 1
     THEN [capabilities |-> {CapA}, tier |-> 1, last_contact |-> Some(0)]
     ELSE [capabilities |-> {CapA, CapAB}, tier |-> 2, last_contact |-> None]]

IdleReq == [pc |-> "idle", uid |-> 0, val |-> None, new |-> None, then |-> "return"]
IdleKreq == [pc |-> "idle", id |-> None, key |-> None]

AdminInit ==
  /\ sled_db = Registry0
  /\ agent_cache = Registry0
  /\ areq = [p \in Procs |-> IdleReq]
  /\ deleted = [u \in Agents |-> FALSE]
  /\ keys_active = initialize_from_list(EmptyTree, PredefinedKeys)
  /\ keys_archived = EmptyTree
  /\ kreq = IdleKreq
  /\ probe = None

IdleSub == [pc |-> "idle", tid |-> None, status |-> "Pending", got |-> None, seq |-> 0]
IdleAg == [pc |-> "idle", tid |-> None, val |-> None]
IdleArch == [pc |-> "idle", todo |-> EmptyTree]

Init ==
  /\ tasks = <<>>
  /\ chan = [n \in TaskNums |-> watch_channel("Pending")]
  /\ sub = [n \in TaskNums |-> IdleSub]
  /\ ag = [a \in Agents |-> IdleAg]
  /\ agentdb = Registry0
  /\ now = 0
  /\ nextSweep = 0
  /\ unassigned = EmptyTree
  /\ assigned = EmptyTree
  /\ archived = EmptyTree
  /\ arch = IdleArch
  /\ winners = [n \in TaskNums |-> {}]
  /\ losers = [n \in TaskNums |-> {}]
  /\ shrunk = FALSE
  /\ AdminInit

(* history: how many submissions have been made so far *)
Submitted == Cardinality({n \in TaskNums : sub[n].pc # "idle"})

----------------------------------------------------------------------------
(* The urgent submitter: submit_urgent_task *)

SubmitUrgent(n, cap) ==
  /\ sub[n].pc = "idle"
  /\ now <= MaxSubmitTime
  /\ LET task == [id |-> [cap |-> cap, id |-> n], created_at |-> now] IN
     IF ~has_potential_agents_for(cap, agentdb, now)
     THEN /\ sub' = [sub EXCEPT ![n].pc = "rejected", ![n].tid = Some(task.id),
                                ![n].seq = Submitted + 1]
          /\ UNCHANGED <<tasks, chan>>
     ELSE /\ tasks' = add_task(tasks, task, UrgentTtl, now)
          /\ chan' = [chan EXCEPT ![n] = watch_channel("Pending")]
          /\ sub' = [sub EXCEPT ![n].pc = "added", ![n].tid = Some(task.id),
                                ![n].seq = Submitted + 1]
  /\ UNCHANGED adminVars
  /\ UNCHANGED <<ag, agentdb, now, nextSweep, winners, losers, shrunk>>
  /\ UNCHANGED durableVars

Subscribe(n) ==
  /\ sub[n].pc = "added"
  /\ chan' = [chan EXCEPT ![n] = watch_subscribe(@)]
  /\ sub' = [sub EXCEPT ![n].pc = "waiting"]
  /\ UNCHANGED adminVars
  /\ UNCHANGED <<tasks, ag, agentdb, now, nextSweep, winners, losers, shrunk>>
  /\ UNCHANGED durableVars

Changed(n) ==
  /\ sub[n].pc = "waiting"
  /\ chan[n].unseen
  /\ chan' = [chan EXCEPT ![n].unseen = FALSE]
  /\ sub' = [sub EXCEPT ![n].status = chan[n].val,
                        ![n].pc = IF Terminal(chan[n].val) THEN "fetch" ELSE "waiting"]
  /\ UNCHANGED adminVars
  /\ UNCHANGED <<tasks, ag, agentdb, now, nextSweep, winners, losers, shrunk>>
  /\ UNCHANGED durableVars

Fetch(n) ==
  /\ sub[n].pc = "fetch"
  /\ sub' = [sub EXCEPT ![n].got = get_assigned_task(tasks, Unwrap(sub[n].tid)),
                        ![n].pc = "remove"]
  /\ UNCHANGED adminVars
  /\ UNCHANGED <<tasks, chan, ag, agentdb, now, nextSweep, winners, losers, shrunk>>
  /\ UNCHANGED durableVars

Return(n) ==
  /\ sub[n].pc = "remove"
  /\ tasks' = remove_task(tasks, Unwrap(sub[n].tid))
  /\ chan' = [chan EXCEPT ![n] = watch_drop(@)]
  /\ sub' = [sub EXCEPT ![n].pc = "done"]
  /\ UNCHANGED adminVars
  /\ UNCHANGED <<ag, agentdb, now, nextSweep, winners, losers, shrunk>>
  /\ UNCHANGED durableVars

(* The client disconnects: the handler's future is dropped at an await    *)
(* point, and with it the receiver if the submitter had subscribed.        *)
Disconnect(n) ==
  /\ sub[n].pc \in {"added", "waiting", "fetch", "remove"}
  /\ chan' = [chan EXCEPT ![n] = watch_drop(@)]
  /\ sub' = [sub EXCEPT ![n].pc = "aborted"]
  /\ UNCHANGED adminVars
  /\ UNCHANGED <<tasks, ag, agentdb, now, nextSweep, winners, losers, shrunk>>
  /\ UNCHANGED durableVars

----------------------------------------------------------------------------
(* The regular submitter: the non-urgent branch of submit_task *)

AddUnassigned(n, cap) ==
  /\ sub[n].pc = "idle"
  /\ now <= MaxSubmitTime
  /\ LET task == [id |-> [cap |-> cap, id |-> n], created_at |-> now] IN
     /\ unassigned' = add_unassigned(unassigned, task)
     /\ sub' = [sub EXCEPT ![n].pc = "queued", ![n].tid = Some(task.id),
                           ![n].seq = Submitted + 1]
  /\ UNCHANGED adminVars
  /\ UNCHANGED <<ag, agentdb, now, assigned, archived, arch, winners, losers, shrunk>>
  /\ UNCHANGED urgentVars

----------------------------------------------------------------------------
(* Pick-up: try_pick_up_urgent_task, and when the urgent store does not    *)
(* assign, try_pick_up_non_urgent_task (try_take_task_handler).            *)

Regular(id) == sub[id.id].pc = "queued" /\ sub[id.id].tid = Some(id)

TakeAssign(a, tid) ==
  /\ ag[a].pc = "idle"
  /\ LET r == assign_task(tasks, chan, tid, a, now)
         d == durable_assign_remove(unassigned, tid)
     IN
     /\ tasks' = r.tasks
     /\ chan' = r.chan
     /\ IF r.ret
        THEN /\ ag' = [ag EXCEPT ![a] = [pc |-> "took", tid |-> Some(tid), val |-> None]]
             /\ winners' = [winners EXCEPT ![tid.id] = @ \cup {a}]
             /\ UNCHANGED <<unassigned, losers>>
        ELSE /\ unassigned' = d.unassigned
             /\ ag' = IF IsSome(d.value)
                      THEN [ag EXCEPT ![a] = [pc |-> "assigning", tid |-> Some(tid),
                                              val |-> d.value]]
                      ELSE ag
             /\ losers' = IF ~IsSome(d.value) /\ Regular(tid)
                          THEN [losers EXCEPT ![tid.id] = @ \cup {a}]
                          ELSE losers
             /\ UNCHANGED winners
  /\ UNCHANGED adminVars
  /\ UNCHANGED <<sub, agentdb, now, nextSweep, assigned, archived, arch, shrunk>>

TakeGet(a) ==
  /\ ag[a].pc = "took"
  /\ ag' = [ag EXCEPT ![a] = IdleAg]
  /\ UNCHANGED adminVars
  /\ UNCHANGED <<tasks, chan, sub, agentdb, now, nextSweep, winners, losers, shrunk>>
  /\ UNCHANGED durableVars

AssignInsert(a) ==
  /\ ag[a].pc = "assigning"
  /\ assigned' = durable_assign_insert(assigned, Unwrap(ag[a].val), a, now)
  /\ winners' = [winners EXCEPT ![Unwrap(ag[a].tid).id] = @ \cup {a}]
  /\ ag' = [ag EXCEPT ![a] = IdleAg]
  /\ UNCHANGED adminVars
  /\ UNCHANGED <<sub, agentdb, now, unassigned, archived, arch, losers, shrunk>>
  /\ UNCHANGED urgentVars

----------------------------------------------------------------------------
(* Reports and progress updates *)

ReportUrgent(tid, success, payload) ==
  /\ LET r == complete_task(tasks, chan, tid, success, payload) IN
     /\ tasks' = r.tasks
     /\ chan' = r.chan
  /\ UNCHANGED adminVars
  /\ UNCHANGED <<sub, ag, agentdb, now, nextSweep, winners, losers, shrunk>>
  /\ UNCHANGED durableVars

(* Whether the urgent store owned the id: the value report_urgent_task     *)
(* hands back to the handler.                                              *)
urgent_owns(store, task_id) == Contains(store, task_id)

report_change(task, success, payload) ==
  [task EXCEPT !.status = IF success THEN "Completed" ELSE "Failed",
               !.result = Some(payload)]

(* A routing that tries the durable store whatever the urgent store said. *)
post_task_resolution_both(store, ch, asg, task_id, success, payload) ==
  LET r == complete_task(store, ch, task_id, success, payload)
      got == get_assigned(asg, task_id)
  IN IF r.err = "Conflict"
     THEN [tasks |-> store, chan |-> ch, put |-> None, err |-> "Conflict"]
     ELSE IF ~IsSome(got)
     THEN [tasks |-> r.tasks, chan |-> r.chan, put |-> None, err |-> "NotFound"]
     ELSE [tasks |-> r.tasks, chan |-> r.chan,
           put |-> Some(report_change(Unwrap(got), success, payload)), err |-> "none"]

(* post_task_resolution: report_urgent_task, and report_non_urgent_task    *)
(* up to its write when the urgent store did not own the id.               *)
post_task_resolution(store, ch, asg, task_id, success, payload) ==
  LET r == complete_task(store, ch, task_id, success, payload)
      got == get_assigned(asg, task_id)
  IN IF r.err = "Conflict"
     THEN [tasks |-> store, chan |-> ch, put |-> None, err |-> "Conflict"]
     ELSE IF urgent_owns(store, task_id)
     THEN [tasks |-> r.tasks, chan |-> r.chan, put |-> None, err |-> "none"]
     ELSE IF ~IsSome(got)
     THEN [tasks |-> store, chan |-> ch, put |-> None, err |-> "NotFound"]
     ELSE [tasks |-> store, chan |-> ch,
           put |-> Some(report_change(Unwrap(got), success, payload)), err |-> "none"]

PostTaskResolution(a, tid, success, payload) ==
  /\ ag[a].pc = "idle"
  /\ agentdb' = update_agent_last_contact(agentdb, a, now)
  /\ LET r == post_task_resolution(tasks, chan, assigned, tid, success, payload) IN
     /\ tasks' = r.tasks
     /\ chan' = r.chan
     /\ ag' = IF IsSome(r.put)
              THEN [ag EXCEPT ![a] = [pc |-> "reporting", tid |-> Some(tid), val |-> r.put]]
              ELSE ag
  /\ UNCHANGED adminVars
  /\ UNCHANGED <<sub, now, nextSweep, winners, losers, shrunk>>
  /\ UNCHANGED durableVars

(* report_non_urgent_task: get_assigned, change the copy, update_assigned *)
ReportGet(a, tid, success, payload) ==
  /\ ag[a].pc = "idle"
  /\ LET got == get_assigned(assigned, tid) IN
     /\ IsSome(got)
     /\ ag' = [ag EXCEPT ![a] =
                 [pc |-> "reporting", tid |-> Some(tid),
                  val |-> Some([Unwrap(got) EXCEPT
                                  !.status = IF success THEN "Completed" ELSE "Failed",
                                  !.result = Some(payload)])]]
  /\ UNCHANGED adminVars
  /\ UNCHANGED <<sub, agentdb, now, winners, losers, shrunk>>
  /\ UNCHANGED urgentVars
  /\ UNCHANGED durableVars

(* update_non_urgent_task: get_assigned, change the copy, update_assigned *)
UpdateGet(a, tid, log_update) ==
  /\ ag[a].pc = "idle"
  /\ LET got == get_assigned(assigned, tid) IN
     /\ IsSome(got)
     /\ Len(Unwrap(got).log) + Len(log_update) <= MaxLog
     /\ ag' = [ag EXCEPT ![a] =
                 [pc |-> "updating", tid |-> Some(tid),
                  val |-> Some([Unwrap(got) EXCEPT
                                  !.log = @ \o log_update])]]
  /\ UNCHANGED adminVars
  /\ UNCHANGED <<sub, agentdb, now, winners, losers, shrunk>>
  /\ UNCHANGED urgentVars
  /\ UNCHANGED durableVars

PutAssigned(a) ==
  /\ ag[a].pc \in {"reporting", "updating"}
  /\ assigned' = update_assigned(assigned, Unwrap(ag[a].val))
  /\ ag' = [ag EXCEPT ![a] = IdleAg]
  /\ UNCHANGED adminVars
  /\ UNCHANGED <<sub, agentdb, now, unassigned, archived, arch, winners, losers, shrunk>>
  /\ UNCHANGED urgentVars

----------------------------------------------------------------------------
(* archive_stale_tasks: one scan of assigned, then for each stale entry a  *)
(* remove from assigned and an insert into archived.                       *)

ArchiveScan ==
  /\ arch.pc = "idle"
  /\ LET todo == archive_scan(assigned, now) IN
     arch' = IF DOMAIN todo = {} THEN IdleArch ELSE [pc |-> "remove", todo |-> todo]
  /\ UNCHANGED adminVars
  /\ UNCHANGED <<sub, ag, agentdb, now, unassigned, assigned, archived, winners, losers, shrunk>>
  /\ UNCHANGED urgentVars

ArchiveRemove ==
  /\ arch.pc = "remove"
  /\ assigned' = tree_remove(assigned, FirstKey(DOMAIN arch.todo))
  /\ arch' = [arch EXCEPT !.pc = "insert"]
  /\ UNCHANGED adminVars
  /\ UNCHANGED <<sub, ag, agentdb, now, unassigned, archived, winners, losers, shrunk>>
  /\ UNCHANGED urgentVars

ArchiveInsert ==
  /\ arch.pc = "insert"
  /\ LET k == FirstKey(DOMAIN arch.todo)
         rest == tree_remove(arch.todo, k)
     IN /\ archived' = tree_insert(archived, k, arch.todo[k])
        /\ arch' = IF DOMAIN rest = {} THEN IdleArch ELSE [pc |-> "remove", todo |-> rest]
  /\ UNCHANGED adminVars
  /\ UNCHANGED <<sub, ag, agentdb, now, unassigned, assigned, winners, losers, shrunk>>
  /\ UNCHANGED urgentVars

----------------------------------------------------------------------------
(* A crash of the broker: every request in flight is lost, the in-memory   *)
(* urgent store is lost, the sled trees keep what was written.             *)

Crash ==
  /\ \/ \E a \in Agents : ag[a].pc # "idle"
     \/ arch.pc # "idle"
  /\ ag' = [a \in Agents |-> IdleAg]
  /\ arch' = IdleArch
  /\ tasks' = <<>>
  /\ chan' = [n \in TaskNums |-> watch_channel("Pending")]
  /\ sub' = [n \in TaskNums |->
               IF sub[n].pc \in {"added", "waiting", "fetch", "remove"}
               THEN [sub[n] EXCEPT !.pc = "aborted"] ELSE sub[n]]
  /\ UNCHANGED adminVars
  /\ UNCHANGED <<agentdb, now, nextSweep, unassigned, assigned, archived,
                 winners, losers, shrunk>>

----------------------------------------------------------------------------
(* The sweeper and the clock *)

Sweep ==
  /\ now = nextSweep
  /\ LET r == expire_tasks(tasks, chan, now) IN
     /\ tasks' = r.tasks
     /\ chan' = r.chan
  /\ nextSweep' = now + SweepPeriod
  /\ UNCHANGED adminVars
  /\ UNCHANGED <<sub, ag, agentdb, now, winners, losers, shrunk>>
  /\ UNCHANGED durableVars

(* Time passes up to the sweeper's next tick. *)
Tick ==
  /\ now < nextSweep
  /\ nextSweep <= MaxTime
  /\ now' = nextSweep
  /\ UNCHANGED adminVars
  /\ UNCHANGED <<tasks, chan, sub, ag, agentdb, nextSweep, winners, losers, shrunk>>
  /\ UNCHANGED durableVars

(* One second passes. *)
Second ==
  /\ now < MaxOnlineTime
  /\ now' = now + 1
  /\ UNCHANGED adminVars
  /\ UNCHANGED <<tasks, chan, sub, ag, agentdb, nextSweep, winners, losers, shrunk>>
  /\ UNCHANGED durableVars

(* More than seven days pass while no request is in flight. *)
AdvanceTime ==
  /\ tasks = <<>>
  /\ \A a \in Agents : ag[a].pc = "idle"
  /\ arch.pc = "idle"
  /\ now + ArchiveAge + 1 <= MaxDurableTime
  /\ now' = now + ArchiveAge + 1
  /\ UNCHANGED adminVars
  /\ UNCHANGED <<tasks, chan, sub, ag, agentdb, nextSweep, winners, losers, shrunk>>
  /\ UNCHANGED durableVars

----------------------------------------------------------------------------
(* CachedAgentStorage: the sled map and the cache in front of it. Each     *)
(* call is a sequence of steps on the two; steps of different callers      *)
(* interleave.                                                             *)

(* get_agent, first step: a miss in the cache sends the caller to the map. *)
GetAgent(p, u) ==
  /\ areq[p].pc = "idle"
  /\ u \notin DOMAIN agent_cache
  /\ areq' = [areq EXCEPT ![p] = [IdleReq EXCEPT !.pc = "get_db", !.uid = u]]
  /\ UNCHANGED <<sled_db, agent_cache, deleted, keys_active, keys_archived, kreq, probe>>
  /\ UNCHANGED brokerVars

(* update_agent, first step: get_agent's look into the cache. *)
UpdateAgent(p, u, tier) ==
  /\ areq[p].pc = "idle"
  /\ areq' = [areq EXCEPT ![p] =
                 [pc |-> IF u \in DOMAIN agent_cache THEN "upd_db" ELSE "get_db",
                  uid |-> u, val |-> None,
                  new |-> Some([Registry0[u] EXCEPT !.tier = tier]),
                  then |-> "update"]]
  /\ UNCHANGED <<sled_db, agent_cache, deleted, keys_active, keys_archived, kreq, probe>>
  /\ UNCHANGED brokerVars

(* get_agent: the read of the map after a miss. *)
GetDb(p) ==
  /\ areq[p].pc = "get_db"
  /\ areq' = [areq EXCEPT ![p] =
                 IF areq[p].uid \in DOMAIN sled_db
                 THEN [@ EXCEPT !.pc = "get_cache", !.val = Some(sled_db[areq[p].uid])]
                 ELSE IdleReq]
  /\ UNCHANGED <<sled_db, agent_cache, deleted, keys_active, keys_archived, kreq, probe>>
  /\ UNCHANGED brokerVars

(* get_agent: what was read from the map is put into the cache. *)
GetCache(p) ==
  /\ areq[p].pc = "get_cache"
  /\ agent_cache' = tree_insert(agent_cache, areq[p].uid, Unwrap(areq[p].val))
  /\ areq' = [areq EXCEPT ![p] =
                 IF areq[p].then = "update" THEN [@ EXCEPT !.pc = "upd_db"] ELSE IdleReq]
  /\ UNCHANGED <<sled_db, deleted, keys_active, keys_archived, kreq, probe>>
  /\ UNCHANGED brokerVars

(* update_agent: db.insert and flush. *)
UpdateDb(p) ==
  /\ areq[p].pc = "upd_db"
  /\ sled_db' = tree_insert(sled_db, areq[p].uid, Unwrap(areq[p].new))
  /\ areq' = [areq EXCEPT ![p].pc = "upd_cache"]
  /\ UNCHANGED <<agent_cache, deleted, keys_active, keys_archived, kreq, probe>>
  /\ UNCHANGED brokerVars

(* update_agent: the cache is refreshed. *)
UpdateCache(p) ==
  /\ areq[p].pc = "upd_cache"
  /\ agent_cache' = tree_insert(agent_cache, areq[p].uid, Unwrap(areq[p].new))
  /\ areq' = [areq EXCEPT ![p] = IdleReq]
  /\ UNCHANGED <<sled_db, deleted, keys_active, keys_archived, kreq, probe>>
  /\ UNCHANGED brokerVars

(* delete_agent: db.remove and flush. *)
DeleteDb(p, u) ==
  /\ areq[p].pc = "idle"
  /\ sled_db' = tree_remove(sled_db, u)
  /\ areq' = [areq EXCEPT ![p] = [IdleReq EXCEPT !.pc = "del_cache", !.uid = u]]
  /\ UNCHANGED <<agent_cache, deleted, keys_active, keys_archived, kreq, probe>>
  /\ UNCHANGED brokerVars

(* delete_agent: the entry is dropped from the cache and the call returns. *)
DeleteCache(p) ==
  /\ areq[p].pc = "del_cache"
  /\ agent_cache' = tree_remove(agent_cache, areq[p].uid)
  /\ deleted' = [deleted EXCEPT ![areq[p].uid] = TRUE]
  /\ areq' = [areq EXCEPT ![p] = IdleReq]
  /\ UNCHANGED <<sled_db, keys_active, keys_archived, kreq, probe>>
  /\ UNCHANGED brokerVars

(* jwt_auth_middleware_agent: the agent record of the token's subject is   *)
(* loaded with get_agent and handed to the handler of the call.            *)
JwtAuth(p, u, call) ==
  /\ areq[p].pc = "idle"
  /\ u \in DOMAIN agent_cache
  /\ areq' = [areq EXCEPT ![p] =
                 [pc |-> call, uid |-> u, val |-> Some(agent_cache[u]),
                  new |-> None, then |-> call]]
  /\ UNCHANGED <<sled_db, agent_cache, deleted, keys_active, keys_archived, kreq, probe>>
  /\ UNCHANGED brokerVars

(* update_last_contact of a poll or report: last_contact of the record the *)
(* handler was given is stamped and the record goes to update_agent, whose *)
(* get_agent finds the agent.                                              *)
StampLastContact(p) ==
  /\ areq[p].pc = "poll"
  /\ areq[p].uid \in DOMAIN agent_cache
  /\ areq' = [areq EXCEPT ![p] =
                 [@ EXCEPT !.pc = "upd_db",
                           !.new = Some([Unwrap(areq[p].val) EXCEPT
                                           !.last_contact = Some(now)])]]
  /\ UNCHANGED <<sled_db, agent_cache, deleted, keys_active, keys_archived, kreq, probe>>
  /\ UNCHANGED brokerVars

(* update_agent_info: the fields of the request are written into the       *)
(* record the handler was given and the record goes to update_agent.       *)
InfoUpdate(p, caps, tier) ==
  /\ areq[p].pc = "info"
  /\ areq[p].uid \in DOMAIN agent_cache
  /\ areq' = [areq EXCEPT ![p] =
                 [@ EXCEPT !.pc = "upd_db",
                           !.new = Some([Unwrap(areq[p].val) EXCEPT
                                           !.capabilities = caps,
                                           !.tier = tier,
                                           !.last_contact = Some(now)])]]
  /\ UNCHANGED <<sled_db, agent_cache, deleted, keys_active, keys_archived, kreq, probe>>
  /\ UNCHANGED brokerVars

(* The cache drops an entry whose time has run out. *)
Evict(u) ==
  /\ u \in DOMAIN agent_cache
  /\ agent_cache' = tree_remove(agent_cache, u)
  /\ UNCHANGED <<sled_db, areq, deleted, keys_active, keys_archived, kreq, probe>>
  /\ UNCHANGED brokerVars

(* A call of has_capability on given patterns and a given capability.     *)

CapChars == {"a", "b", "*"}
CapStrings == UNION {[1..n -> CapChars] : n \in 0..MaxStrLen}
Foo == <<"f", "o", "o">>
FooStar == <<"f", "o", "o", "*">>
FooBar == <<"f", "o", "o", "b", "a", "r">>
PatternLists ==
  UNION {[1..n -> CapStrings \cup {Foo, FooStar}] : n \in 0..MaxPatterns}

HasCapability(patterns, cap) ==
  /\ probe = None
  /\ probe' = Some([fn |-> "has_capability", patterns |-> patterns, cap |-> cap,
                    result |-> has_capability(patterns, cap)])
  /\ UNCHANGED <<sled_db, agent_cache, areq, deleted, keys_active, keys_archived, kreq>>
  /\ UNCHANGED brokerVars

(* poll_task_status: the client of task n submitted it with its own key,  *)
(* which the task carries in data.api_key.                                 *)

data_api_key(task) == ClientKey(task.id.id)

poll_task_status(store, un, asg, task_id, api_key) ==
  LET ass == get_assigned(asg, task_id)
      unass == get_unassigned(un, task_id)
      task == IF IsSome(ass) /\ data_api_key(Unwrap(ass)) = api_key THEN ass
              ELSE IF IsSome(unass) /\ data_api_key(Unwrap(unass)) = api_key THEN unass
              ELSE None
      urgent == get_assigned_task(store, task_id)
  IN IF IsSome(task) THEN [err |-> "none", body |-> task]
     ELSE IF IsSome(urgent) THEN [err |-> "none", body |-> urgent]
     ELSE [err |-> "NotFound", body |-> None]

-----------------------------------------------------------------------------
(* AppError and its response *)

ErrorKinds ==
  {"Database", "Internal", "Serialization", "Authentication", "Authorization",
   "Validation", "NotFound", "Conflict", "BadRequest", "Jwt", "Io", "Parse",
   "BcryptError"}

Messages == {<<"m", Digits[i]>> : i \in 1..NumMessages}

(* A mapping that takes Conflict for a bad request. *)
status_code_conflict_as_bad_request(kind) ==
  CASE kind = "Database" -> 500
    [] kind = "Internal" -> 500
    [] kind = "Serialization" -> 500
    [] kind = "Authentication" -> 401
    [] kind = "Authorization" -> 403
    [] kind = "Validation" -> 400
    [] kind = "NotFound" -> 404
    [] kind = "Conflict" -> 400
    [] kind = "BadRequest" -> 400
    [] kind = "Jwt" -> 401
    [] kind = "Io" -> 500
    [] kind = "Parse" -> 400
    [] kind = "BcryptError" -> 500

status_code(kind) ==
  CASE kind = "Database" -> 500
    [] kind = "Internal" -> 500
    [] kind = "Serialization" -> 500
    [] kind = "Authentication" -> 401
    [] kind = "Authorization" -> 403
    [] kind = "Validation" -> 400
    [] kind = "NotFound" -> 404
    [] kind = "Conflict" -> 409
    [] kind = "BadRequest" -> 400
    [] kind = "Jwt" -> 401
    [] kind = "Io" -> 500
    [] kind = "Parse" -> 400
    [] kind = "BcryptError" -> 500

error_type(kind) ==
  CASE kind = "Database" -> "database_error"
    [] kind = "Internal" -> "internal_error"
    [] kind = "Serialization" -> "serialization_error"
    [] kind = "Authentication" -> "authentication_error"
    [] kind = "Authorization" -> "authorization_error"
    [] kind = "Validation" -> "validation_error"
    [] kind = "NotFound" -> "not_found"
    [] kind = "Conflict" -> "conflict"
    [] kind = "BadRequest" -> "bad_request"
    [] kind = "Jwt" -> "jwt_error"
    [] kind = "Io" -> "io_error"
    [] kind = "Parse" -> "parse_error"
    [] kind = "BcryptError" -> "bcrypt_error"

should_log(kind) ==
  CASE kind \in {"Authentication", "Authorization", "Validation", "NotFound",
                 "BadRequest", "Jwt", "Parse"} -> FALSE
    [] kind \in {"Database", "Internal", "Serialization", "Io", "Conflict",
                 "BcryptError"} -> TRUE

(* The SchedulingImpossible kind: the statuses it may be given, and its    *)
(* type in the envelope.                                                   *)
scheduling_impossible_status == {409, 503}
scheduling_impossible_type == "scheduling_impossible"

into_response(kind, type, status, message) ==
  [status |-> status,
   body |-> [type |-> type, message |-> <<kind, message>>, status |-> status]]

IntoResponse(kind, message) ==
  /\ probe = None
  /\ \E status \in IF kind \in ErrorKinds
                    THEN {status_code(kind)} ELSE scheduling_impossible_status :
       LET type == IF kind \in ErrorKinds
                   THEN error_type(kind) ELSE scheduling_impossible_type
       IN probe' = Some([fn |-> "into_response", kind |-> kind,
                         response |-> into_response(kind, type, status, message)])
  /\ UNCHANGED <<sled_db, agent_cache, areq, deleted, keys_active, keys_archived, kreq>>
  /\ UNCHANGED brokerVars

(* Client keys: a key is written with upsert_key; revoke_client_api_key   *)
(* reads the active record, sets is_revoked and calls update_key, which    *)
(* writes archived and then removes from active; submit_task verifies the  *)
(* key before it queues the task.                                          *)

KeyCapLists == {<<CapA>>, <<AStar>>}

UpsertKey(id, caps, revoked) ==
  /\ keys_active' = upsert_key(keys_active, id,
                      [key |-> id, capabilities |-> caps, is_predefined |-> FALSE,
                       is_revoked |-> revoked])
  /\ UNCHANGED <<sled_db, agent_cache, areq, deleted, keys_archived, kreq, probe>>
  /\ UNCHANGED brokerVars

RevokeFind(id) ==
  /\ kreq.pc = "idle"
  /\ LET key == find_active(keys_active, id) IN
     /\ IsSome(key)
     /\ kreq' = [pc |-> "archive", id |-> Some(id),
                 key |-> Some([Unwrap(key) EXCEPT !.is_revoked = TRUE])]
  /\ UNCHANGED <<sled_db, agent_cache, areq, deleted, keys_active, keys_archived, probe>>
  /\ UNCHANGED brokerVars

RevokeArchive ==
  /\ kreq.pc = "archive"
  /\ keys_archived' = tree_insert(keys_archived, Unwrap(kreq.id), Unwrap(kreq.key))
  /\ kreq' = [kreq EXCEPT !.pc = "remove"]
  /\ UNCHANGED <<sled_db, agent_cache, areq, deleted, keys_active, probe>>
  /\ UNCHANGED brokerVars

RevokeRemove ==
  /\ kreq.pc = "remove"
  /\ keys_active' = tree_remove(keys_active, Unwrap(kreq.id))
  /\ kreq' = IdleKreq
  /\ UNCHANGED <<sled_db, agent_cache, areq, deleted, keys_archived, probe>>
  /\ UNCHANGED brokerVars

(* The broker stops while a revocation is in flight; the trees keep what   *)
(* was written.                                                            *)
KeysCrash ==
  /\ kreq.pc # "idle"
  /\ kreq' = IdleKreq
  /\ UNCHANGED <<sled_db, agent_cache, areq, deleted, keys_active, keys_archived, probe>>
  /\ UNCHANGED brokerVars

(* The broker starts and writes its configured client keys. *)
InitializeFromList ==
  /\ kreq.pc = "idle"
  /\ keys_active' = initialize_from_list(keys_active, PredefinedKeys)
  /\ UNCHANGED <<sled_db, agent_cache, areq, deleted, keys_archived, kreq, probe>>
  /\ UNCHANGED brokerVars

(* submit_task with urgent = false. *)
SubmitTask(n, key, cap) ==
  /\ sub[n].pc = "idle"
  /\ LET task == [id |-> [cap |-> cap, id |-> n], created_at |-> now] IN
     IF verify_key(keys_active, key, cap) # "ok"
     THEN /\ sub' = [sub EXCEPT ![n].pc = "denied", ![n].tid = Some(task.id),
                                ![n].seq = Submitted + 1]
          /\ UNCHANGED unassigned
     ELSE /\ unassigned' = add_unassigned(unassigned, task)
          /\ sub' = [sub EXCEPT ![n].pc = "queued", ![n].tid = Some(task.id),
                                ![n].seq = Submitted + 1]
  /\ UNCHANGED adminVars
  /\ UNCHANGED <<ag, agentdb, now, assigned, archived, arch, winners, losers, shrunk>>
  /\ UNCHANGED urgentVars

(* The two poll handlers: the response leaves no trace in the broker, the  *)
(* stamp of last_contact does.                                             *)

PollUrgent(a) ==
  /\ agentdb' = fetch_task_urgent_handler(tasks, agentdb, a, now).agentdb
  /\ UNCHANGED adminVars
  /\ UNCHANGED <<sub, ag, now, winners, losers, shrunk>>
  /\ UNCHANGED urgentVars
  /\ UNCHANGED durableVars

Poll(a) ==
  /\ agentdb' = fetch_task_non_urgent_handler(tasks, unassigned, agentdb, a, now).agentdb
  /\ UNCHANGED adminVars
  /\ UNCHANGED <<sub, ag, now, winners, losers, shrunk>>
  /\ UNCHANGED urgentVars
  /\ UNCHANGED durableVars

(* update_agent_info: the agent replaces its capabilities and tier, and    *)
(* the handler stamps last_contact.                                        *)

TierRaise(a, caps, tier) ==
  /\ is_online(agentdb[a], now)
  /\ caps = agentdb[a].capabilities
  /\ tier > agentdb[a].tier

Offered(b, db) ==
  find_assignable_regular(unassigned, db[b].capabilities, db[b].tier, db, now)

UpdateAgentInfo(a, caps, tier) ==
  /\ agentdb' = [agentdb EXCEPT ![a] = [capabilities |-> caps, tier |-> tier,
                                        last_contact |-> Some(now)]]
  /\ shrunk' = (shrunk \/ (TierRaise(a, caps, tier) /\
                   \E b \in Agents \ {a} : Offered(b, agentdb') # Offered(b, agentdb)))
  /\ UNCHANGED adminVars
  /\ UNCHANGED <<sub, ag, now, winners, losers>>
  /\ UNCHANGED urgentVars
  /\ UNCHANGED durableVars

----------------------------------------------------------------------------
(* The urgent store with its submitters, agents and sweeper. *)

NextUrgent ==
  \/ \E n \in UrgentNums, cap \in Caps : SubmitUrgent(n, cap)
  \/ \E n \in UrgentNums : Subscribe(n)
  \/ \E n \in UrgentNums : Changed(n)
  \/ \E n \in UrgentNums : Fetch(n)
  \/ \E n \in UrgentNums : Return(n)
  \/ \E a \in Agents, tid \in TaskIdSet : TakeAssign(a, tid)
  \/ \E a \in Agents : TakeGet(a)
  \/ \E tid \in TaskIdSet, success \in BOOLEAN, payload \in Payloads :
       ReportUrgent(tid, success, payload)
  \/ Sweep
  \/ Tick

SpecUrgent == Init /\ [][NextUrgent]_vars

(* The urgent store with submitters that may abandon their wait. *)

UrgentIds == {tid \in TaskIdSet : tid.id \in UrgentNums}

NextAbandon ==
  \/ \E n \in UrgentNums, cap \in Caps : SubmitUrgent(n, cap)
  \/ \E n \in UrgentNums : Subscribe(n)
  \/ \E n \in UrgentNums : Changed(n)
  \/ \E n \in UrgentNums : Fetch(n)
  \/ \E n \in UrgentNums : Return(n)
  \/ \E n \in UrgentNums : Disconnect(n)
  \/ \E a \in Agents, tid \in UrgentIds : TakeAssign(a, tid)
  \/ \E a \in Agents : TakeGet(a)
  \/ \E tid \in UrgentIds, success \in BOOLEAN, payload \in Payloads :
       ReportUrgent(tid, success, payload)
  \/ Sweep
  \/ Tick

SpecAbandon == Init /\ [][NextAbandon]_vars

(* The urgent store with a sweeper that keeps running and submitters that  *)
(* keep waiting: the sweeper's interval loop and the submitter's wait loop *)
(* are tasks the runtime keeps scheduling; agents take and report as they  *)
(* please.                                                                 *)

NextReturn ==
  \/ \E n \in UrgentNums, cap \in Caps : SubmitUrgent(n, cap)
  \/ \E n \in UrgentNums : Subscribe(n)
  \/ \E n \in UrgentNums : Changed(n)
  \/ \E n \in UrgentNums : Fetch(n)
  \/ \E n \in UrgentNums : Return(n)
  \/ \E a \in Agents, tid \in UrgentIds : TakeAssign(a, tid)
  \/ \E a \in Agents : TakeGet(a)
  \/ \E tid \in UrgentIds, success \in BOOLEAN, payload \in Payloads :
       ReportUrgent(tid, success, payload)
  \/ Sweep
  \/ Tick

FairReturn ==
  /\ WF_vars(Sweep)
  /\ WF_vars(Tick)
  /\ \A n \in UrgentNums :
       /\ WF_vars(Subscribe(n))
       /\ WF_vars(Changed(n))
       /\ WF_vars(Fetch(n))
       /\ WF_vars(Return(n))

SpecReturn == Init /\ [][NextReturn]_vars /\ FairReturn

(* The gate of urgent submissions against a changing registry. *)

NextGate ==
  \/ \E n \in UrgentNums, cap \in Caps : SubmitUrgent(n, cap)
  \/ \E a \in Agents, caps \in SUBSET Caps, tier \in Tiers : UpdateAgentInfo(a, caps, tier)

SpecGate == Init /\ [][NextGate]_vars

(* archive_stale_tasks run on a database found at start-up: the assigned   *)
(* tree holds records of any status and age, nothing else is going on.     *)

ArchiveStatuses == {"Pending", "Running", "Completed"}

ArchiveId(n) == [cap |-> CapA, id |-> n]

ArchiveTree(f) ==
  LET S == {n \in TaskNums : f[n] # <<>>} IN
  [k \in {make_key(ArchiveId(n)) : n \in S} |->
     LET n == CHOOSE m \in S : make_key(ArchiveId(m)) = k IN
     [id |-> ArchiveId(n), agent_id |-> 1, status |-> f[n][1], created_at |-> 0,
      assigned_at |-> f[n][2], result |-> None, log |-> <<>>]]

ArchiveTrees ==
  {ArchiveTree(f) :
     f \in [TaskNums -> {<<>>} \cup (ArchiveStatuses \X (0..MaxAssignedAt))]}

InitArchive ==
  /\ tasks = <<>>
  /\ chan = [n \in TaskNums |-> watch_channel("Pending")]
  /\ sub = [n \in TaskNums |-> IdleSub]
  /\ ag = [a \in Agents |-> IdleAg]
  /\ agentdb = Registry0
  /\ now = ArchiveAge + 1
  /\ nextSweep = 0
  /\ unassigned = EmptyTree
  /\ assigned \in ArchiveTrees
  /\ archived = EmptyTree
  /\ arch = IdleArch
  /\ winners = [n \in TaskNums |-> {}]
  /\ losers = [n \in TaskNums |-> {}]
  /\ shrunk = FALSE
  /\ AdminInit

NextArchive ==
  \/ ArchiveScan
  \/ ArchiveRemove
  \/ ArchiveInsert

SpecArchive == InitArchive /\ [][NextArchive]_vars

ReportNums == {n \in TaskNums : n <= NumUrgent + NumDurable}

(* Polls against both queues, with agents changing capabilities and tier. *)

NextPoll ==
  \/ \E n \in UrgentNums, cap \in Caps : SubmitUrgent(n, cap)
  \/ \E n \in ReportNums \ UrgentNums, cap \in Caps : AddUnassigned(n, cap)
  \/ \E a \in Agents, tid \in TaskIdSet : TakeAssign(a, tid)
  \/ \E a \in Agents : TakeGet(a)
  \/ \E a \in Agents : AssignInsert(a)
  \/ \E a \in Agents : PollUrgent(a)
  \/ \E a \in Agents : Poll(a)
  \/ \E a \in Agents, caps \in SUBSET Caps, tier \in Tiers : UpdateAgentInfo(a, caps, tier)

SpecPoll == Init /\ [][NextPoll]_vars

(* Agents that report in for a while and then fall silent, second by      *)
(* second.                                                                 *)

NextOnline ==
  \/ \E n \in UrgentNums, cap \in Caps : SubmitUrgent(n, cap)
  \/ \E a \in Agents :
       now <= MaxSubmitTime /\ UpdateAgentInfo(a, agentdb[a].capabilities, agentdb[a].tier)
  \/ Second

SpecOnline == Init /\ [][NextOnline]_vars

(* The agent storage under concurrent callers. *)

NextAgents ==
  \/ \E p \in Procs, u \in Agents : GetAgent(p, u)
  \/ \E p \in Procs, u \in Agents : UpdateAgent(p, u, MaxTier)
  \/ \E p \in Procs : GetDb(p)
  \/ \E p \in Procs : GetCache(p)
  \/ \E p \in Procs : UpdateDb(p)
  \/ \E p \in Procs : UpdateCache(p)
  \/ \E p \in Procs, u \in Agents : DeleteDb(p, u)
  \/ \E p \in Procs : DeleteCache(p)
  \/ \E u \in Agents : Evict(u)

SpecAgents == Init /\ [][NextAgents]_vars

(* Polls and info updates of the agents, each an authentication followed   *)
(* by the handler's write of the record it was given.                      *)

NextContact ==
  \/ \E p \in Procs, u \in Agents, call \in {"poll", "info"} : JwtAuth(p, u, call)
  \/ \E p \in Procs : StampLastContact(p)
  \/ \E p \in Procs, caps \in {{CapAB}} : InfoUpdate(p, caps, MaxTier)
  \/ \E p \in Procs : UpdateDb(p)
  \/ \E p \in Procs : UpdateCache(p)

SpecContact == Init /\ [][NextContact]_vars

(* The client keys: creation, revocation, crashes, and submissions that   *)
(* are checked against them.                                               *)

NextKeys ==
  \/ \E id \in KeyIds, caps \in KeyCapLists, revoked \in BOOLEAN :
       UpsertKey(id, caps, revoked)
  \/ \E id \in KeyIds : RevokeFind(id)
  \/ RevokeArchive
  \/ RevokeRemove
  \/ KeysCrash
  \/ \E n \in ReportNums, key \in KeyIds, cap \in Caps : SubmitTask(n, key, cap)

SpecKeys == Init /\ [][NextKeys]_vars

(* has_capability on every list of patterns and every capability. *)

NextCap ==
  \E patterns \in PatternLists, cap \in CapStrings \cup {Foo, FooBar} :
    HasCapability(patterns, cap)

SpecCap == Init /\ [][NextCap]_vars

ShouldLog(kind) ==
  /\ probe = None
  /\ probe' = Some([fn |-> "should_log", kind |-> kind,
                    status |-> status_code(kind), logged |-> should_log(kind)])
  /\ UNCHANGED <<sled_db, agent_cache, areq, deleted, keys_active,
                 keys_archived, kreq>>
  /\ UNCHANGED brokerVars

(* The client keys over restarts: revocations, start-ups that write the    *)
(* configured keys again, and submissions checked against the keys.        *)

NextRestart ==
  \/ \E id \in KeyIds : RevokeFind(id)
  \/ RevokeArchive
  \/ RevokeRemove
  \/ InitializeFromList
  \/ \E n \in TaskNums, key \in KeyIds, cap \in Caps : SubmitTask(n, key, cap)

SpecRestart == Init /\ [][NextRestart]_vars

(* Every error turned into its response, or asked whether it is logged. *)

NextError ==
  \/ \E kind \in ErrorKinds \cup {"SchedulingImpossible"}, message \in Messages :
       IntoResponse(kind, message)
  \/ \E kind \in ErrorKinds : ShouldLog(kind)

SpecError == Init /\ [][NextError]_vars

(* Final reports against both stores. *)

NextReport ==
  \/ \E n \in UrgentNums, cap \in Caps : SubmitUrgent(n, cap)
  \/ \E n \in ReportNums, cap \in Caps : AddUnassigned(n, cap)
  \/ \E a \in Agents, tid \in TaskIdSet : TakeAssign(a, tid)
  \/ \E a \in Agents : TakeGet(a)
  \/ \E a \in Agents : AssignInsert(a)
  \/ \E a \in Agents, tid \in TaskIdSet, success \in BOOLEAN, payload \in Payloads :
       PostTaskResolution(a, tid, success, payload)
  \/ \E a \in Agents : PutAssigned(a)

SpecReport == Init /\ [][NextReport]_vars

(* The urgent store with several entries: order of insertion and removal. *)

NextFifo ==
  \/ \E n \in TaskNums, cap \in Caps : SubmitUrgent(n, cap)
  \/ \E n \in UrgentNums : Subscribe(n)
  \/ \E n \in UrgentNums : Changed(n)
  \/ \E n \in UrgentNums : Fetch(n)
  \/ \E n \in UrgentNums : Return(n)
  \/ \E a \in {1}, tid \in TaskIdSet : now <= MaxSubmitTime /\ TakeAssign(a, tid)
  \/ \E a \in {1} : TakeGet(a)
  \/ \E tid \in UrgentIds, success \in {TRUE}, payload \in Payloads :
       ReportUrgent(tid, success, payload)
  \/ Sweep
  \/ Tick

SpecFifo == Init /\ [][NextFifo]_vars

(* The durable store with its submitters, agents, archival and crashes. *)

NextDurable ==
  \/ \E n \in DurableNums, cap \in Caps : AddUnassigned(n, cap)
  \/ \E a \in Agents, tid \in TaskIdSet : TakeAssign(a, tid)
  \/ \E a \in Agents : AssignInsert(a)
  \/ \E a \in Agents, tid \in TaskIdSet, success \in BOOLEAN, payload \in Payloads :
       ReportGet(a, tid, success, payload)
  \/ \E a \in Agents, tid \in TaskIdSet, log_update \in LogUpdates :
       UpdateGet(a, tid, log_update)
  \/ \E a \in Agents : PutAssigned(a)
  \/ ArchiveScan
  \/ ArchiveRemove
  \/ ArchiveInsert
  \/ AdvanceTime

SpecDurable == Init /\ [][NextDurable]_vars

(* The pick-up race alone: regular tasks and agents that take them. *)

NextPickup ==
  \/ \E n \in TaskNums, cap \in Caps : AddUnassigned(n, cap)
  \/ \E a \in Agents, tid \in TaskIdSet : TakeAssign(a, tid)
  \/ \E a \in Agents : AssignInsert(a)

SpecPickup == Init /\ [][NextPickup]_vars

(* The pick-up race with crashes of the broker. *)

NextCrash ==
  \/ \E n \in TaskNums, cap \in Caps : AddUnassigned(n, cap)
  \/ \E a \in Agents, tid \in TaskIdSet : TakeAssign(a, tid)
  \/ \E a \in Agents : AssignInsert(a)
  \/ Crash

SpecCrash == Init /\ [][NextCrash]_vars

(* The registry and the regular queue: what polls are offered. *)

NextSched ==
  \/ \E n \in DurableNums, cap \in Caps : AddUnassigned(n, cap)
  \/ \E a \in Agents, tid \in TaskIdSet : TakeAssign(a, tid)
  \/ \E a \in Agents : AssignInsert(a)
  \/ \E a \in Agents, caps \in SUBSET Caps, tier \in Tiers : UpdateAgentInfo(a, caps, tier)
  \/ AdvanceTime

SpecSched == Init /\ [][NextSched]_vars

----------------------------------------------------------------------------
(* Properties *)

UrgentEntry(n) ==
  IF \E i \in 1..Len(tasks) : tasks[i].task.id.id = n
  THEN Some(tasks[CHOOSE i \in 1..Len(tasks) : tasks[i].task.id.id = n])
  ELSE None

Added(n) == sub[n].pc = "queued"

KeyOf(n) == make_key(Unwrap(sub[n].tid))

Assigning(n) ==
  {a \in Agents : ag[a].pc = "assigning" /\ ag[a].tid = sub[n].tid}

(* C1: among the assign_task calls on one urgent entry exactly one returns *)
(* true, and once the calls have returned the entry's agent_id is the      *)
(* agent of the call that returned true.                                   *)
C1_OneWinnerKeepsAgent ==
  \A n \in UrgentNums :
    (winners[n] # {} /\ IsSome(UrgentEntry(n))) =>
      /\ Cardinality(winners[n]) = 1
      /\ IsSome(Unwrap(UrgentEntry(n)).assigned_task)
      /\ Unwrap(Unwrap(UrgentEntry(n)).assigned_task).agent_id \in winners[n]

(* C2: with crashes injected anywhere inside the durable assign, a task    *)
(* that was added is, whenever no assign on it is in flight, in exactly    *)
(* one of the trees unassigned and assigned.                               *)
C2_AssignAtomicUnderCrash ==
  \A n \in TaskNums :
    (Added(n) /\ Assigning(n) = {}) =>
      (KeyOf(n) \in DOMAIN unassigned) # (KeyOf(n) \in DOMAIN assigned)

Places(tid) ==
  {p \in {"urgent unassigned", "urgent assigned", "unassigned", "assigned", "archived"} :
     \/ p = "urgent unassigned" /\ \E i \in 1..Len(tasks) :
          tasks[i].task.id = tid /\ tasks[i].assigned_task = None
     \/ p = "urgent assigned" /\ \E i \in 1..Len(tasks) :
          tasks[i].task.id = tid /\ tasks[i].assigned_task # None
     \/ p = "unassigned" /\ make_key(tid) \in DOMAIN unassigned
     \/ p = "assigned" /\ make_key(tid) \in DOMAIN assigned
     \/ p = "archived" /\ make_key(tid) \in DOMAIN archived}

(* C3: in every reachable state each task id is in at most one of the five *)
(* places: urgent unassigned, urgent assigned, durable unassigned, durable *)
(* assigned, durable archived.                                             *)
C3_AtMostOnePlace ==
  \A tid \in TaskIdSet : Cardinality(Places(tid)) <= 1

AllowedTransitions ==
  {<<"Pending", "Assigned">>, <<"Assigned", "Completed">>,
   <<"Assigned", "Failed">>, <<"Pending", "Failed">>}

(* C4: every status change of an urgent entry is Pending->Assigned,        *)
(* Assigned->Completed, Assigned->Failed or Pending->Failed, and a         *)
(* Completed or Failed entry never changes status again.                   *)
C4_StatusTransitions ==
  [][\A n \in UrgentNums :
       (IsSome(UrgentEntry(n)) /\ IsSome(UrgentEntry(n)')) =>
         \/ Unwrap(UrgentEntry(n)').status = Unwrap(UrgentEntry(n)).status
         \/ <<Unwrap(UrgentEntry(n)).status, Unwrap(UrgentEntry(n)').status>>
              \in AllowedTransitions]_vars

(* C5: without crashes, for each regular task at most one durable assign   *)
(* succeeds and once a call got Conflict exactly one has succeeded or is   *)
(* completing; the task is in unassigned until a call succeeds and in      *)
(* assigned from the moment the winner has written it; when every task has *)
(* been picked up unassigned is empty and assigned holds one entry each.   *)
C5_ExactlyOnePickup ==
  /\ \A n \in TaskNums :
       Added(n) =>
         /\ Cardinality(winners[n] \cup Assigning(n)) <= 1
         /\ (losers[n] # {} => Cardinality(winners[n] \cup Assigning(n)) = 1)
         /\ (KeyOf(n) \in DOMAIN unassigned) = (winners[n] \cup Assigning(n) = {})
         /\ (KeyOf(n) \in DOMAIN assigned) = (winners[n] # {})
  /\ (\A n \in TaskNums : Added(n) /\ winners[n] # {}) =>
       /\ unassigned = EmptyTree
       /\ Cardinality(DOMAIN assigned) = NumTasks

(* C5 witness: every task was picked up and every task saw a Conflict. *)
C5_Witness ==
  /\ \A n \in TaskNums : Added(n) /\ winners[n] # {} /\ losers[n] # {}
  /\ Cardinality(DOMAIN assigned) = NumTasks

(* C6: a submitter blocked on the status channel of an entry that has      *)
(* reached Completed or Failed has a status change to observe.             *)
C6_NoLostWakeup ==
  \A n \in UrgentNums :
    (sub[n].pc = "waiting" /\ IsSome(UrgentEntry(n))
       /\ Terminal(Unwrap(UrgentEntry(n)).status)) => chan[n].unseen

PendingEntry(n) ==
  IsSome(UrgentEntry(n)) /\ Unwrap(UrgentEntry(n)).status = "Pending"

(* C7: an urgent entry never stays Pending for more than the ttl plus one  *)
(* sweep period, and when the sweeper takes a Pending entry out its        *)
(* subscribed waiter has Failed to observe.                                *)
C7_TtlExpiry ==
  /\ [](\A n \in UrgentNums :
          PendingEntry(n) =>
            now - Unwrap(UrgentEntry(n)).created_at <= UrgentTtl + SweepPeriod)
  /\ [][\A n \in UrgentNums :
          (PendingEntry(n) /\ ~IsSome(UrgentEntry(n)') /\ chan[n].rx > 0) =>
            (chan'[n].unseen /\ chan'[n].val = "Failed")]_vars

(* C7 witness: a task nobody picked up has expired and its waiter is woken. *)
C7_Witness ==
  \E n \in UrgentNums :
    /\ sub[n].pc = "waiting" /\ winners[n] = {}
    /\ ~IsSome(UrgentEntry(n))
    /\ chan[n].unseen /\ chan[n].val = "Failed"
    /\ now >= UrgentTtl

(* C8: once assign_task has returned true for an entry, no                 *)
(* find_with_capabilities call with any capability list returns its task.  *)
C8_AssignedNotOffered ==
  \A caps \in SUBSET Caps :
    LET found == find_with_capabilities(tasks, caps) IN
    IsSome(found) => winners[Unwrap(found).id.id] = {}

(* C8 witness: an entry was assigned, a second agent tried to take it, no  *)
(* report came, and a lookup with the entry's capability offers nothing.   *)
C8_Witness ==
  \E n \in UrgentNums :
    /\ IsSome(UrgentEntry(n)) /\ winners[n] # {}
    /\ Unwrap(UrgentEntry(n)).status = "Assigned"
    /\ Unwrap(Unwrap(UrgentEntry(n)).assigned_task).agent_id \notin winners[n]
    /\ find_with_capabilities(tasks, {Unwrap(UrgentEntry(n)).task.id.cap}) = None

(* C9: find_assignable_regular(caps, my_tier) is exactly the set of        *)
(* unassigned tasks whose capability is in caps and whose top online tier  *)
(* (0 if no online agent advertises the capability) is <= my_tier.         *)
C9_ExactlyAssignable ==
  \A caps \in SUBSET Caps, tier \in Tiers :
    find_assignable_regular(unassigned, caps, tier, agentdb, now) =
      {unassigned[k] : k \in {x \in DOMAIN unassigned :
         /\ unassigned[x].id.cap \in caps
         /\ top_online_tier(unassigned[x].id.cap, agentdb, now) <= tier}}

RaiseStep(a) ==
  /\ is_online(agentdb[a], now)
  /\ agentdb'[a].tier > agentdb[a].tier
  /\ agentdb'[a].capabilities = agentdb[a].capabilities
  /\ \A c \in Agents \ {a} : agentdb'[c] = agentdb[c]
  /\ unassigned' = unassigned
  /\ now' = now

(* C10: with tasks and the other agents fixed, raising the tier of one     *)
(* online agent leaves every other agent with a subset of the tasks it was *)
(* offered before.                                                         *)
C10_TierRaiseShrinks ==
  [][\A a \in Agents, b \in Agents :
       (a # b /\ RaiseStep(a)) =>
         find_assignable_regular(unassigned', agentdb'[b].capabilities,
                                 agentdb'[b].tier, agentdb', now')
           \subseteq
         find_assignable_regular(unassigned, agentdb[b].capabilities,
                                 agentdb[b].tier, agentdb, now)]_vars

(* C10 witness: a tier increase has taken a task from another agent. *)
C10_Witness == shrunk

Eligible(caps) ==
  {n \in TaskNums : /\ IsSome(UrgentEntry(n))
                    /\ Unwrap(UrgentEntry(n)).assigned_task = None
                    /\ Unwrap(UrgentEntry(n)).task.id.cap \in caps}

(* C11: find_with_capabilities(caps) returns the entry added earliest      *)
(* among the entries with no assigned task and a capability in caps (none  *)
(* if there is no such entry), also after entries were removed by          *)
(* remove_task or expire_tasks.                                            *)
C11_FindIsFifo ==
  \A caps \in SUBSET Caps :
    IF Eligible(caps) = {}
    THEN find_with_capabilities(tasks, caps) = None
    ELSE LET first == CHOOSE n \in Eligible(caps) :
                        \A m \in Eligible(caps) : sub[n].seq <= sub[m].seq
         IN find_with_capabilities(tasks, caps) = Some(Unwrap(UrgentEntry(first)).task)

(* C11 witness: the entry added first was removed by remove_task, two      *)
(* later entries are still on offer and the earlier of them is found.      *)
C11_Witness ==
  \E m, n1, n2 \in TaskNums :
    /\ sub[m].pc = "done" /\ IsSome(sub[m].got)
    /\ sub[m].seq < sub[n1].seq /\ sub[n1].seq < sub[n2].seq
    /\ {n1, n2} \subseteq Eligible(Caps)
    /\ find_with_capabilities(tasks, Caps) = Some(Unwrap(UrgentEntry(n1)).task)

(* C12: the AssignedTask that the submitter's blocking call returns has    *)
(* the status the report gave the entry (Completed after Success, Failed   *)
(* otherwise) and, after Success with output o, result = o.                *)
C12_ReturnedTaskReflectsReport ==
  \A n \in UrgentNums :
    (sub[n].pc = "done" /\ IsSome(sub[n].got)) =>
      /\ Unwrap(sub[n].got).status = sub[n].status
      /\ (sub[n].status = "Completed" => Unwrap(sub[n].got).result \in {Some(o) : o \in Payloads})

(* C13: when submit_urgent has returned after observing Completed or       *)
(* Failed, the urgent store does not contain the task's id, whether the    *)
(* assigned task was found or not.                                         *)
C13_RemovedOnReturn ==
  \A n \in UrgentNums :
    sub[n].pc = "done" =>
      /\ Terminal(sub[n].status)
      /\ ~Contains(tasks, Unwrap(sub[n].tid))

(* C13 witness: the submitter has returned the assigned task it found. *)
C13_Witness ==
  \E n \in UrgentNums :
    sub[n].pc = "done" /\ IsSome(sub[n].got) /\ ~Contains(tasks, Unwrap(sub[n].tid))

(* C14: an entry whose submitter has abandoned its wait is taken out of   *)
(* the urgent store by the sweeper: a sweep that runs when the entry is    *)
(* past its ttl leaves the store without it.                               *)
C14_AbandonedReclaimed ==
  [][\A n \in UrgentNums :
       (/\ nextSweep' # nextSweep
        /\ sub[n].pc = "aborted"
        /\ IsSome(UrgentEntry(n))
        /\ now - Unwrap(UrgentEntry(n)).created_at > Unwrap(UrgentEntry(n)).ttl)
         => ~IsSome(UrgentEntry(n)')]_vars

(* C15: expire_tasks leaves every entry that is not Pending, however old,  *)
(* and every Pending entry still within its ttl, as it was: same status,   *)
(* same assigned task, still in the store, nothing sent on its channel.    *)
C15_ExpireFrame ==
  [][nextSweep' # nextSweep =>
       \A n \in UrgentNums :
         (/\ IsSome(UrgentEntry(n))
          /\ ~(/\ Unwrap(UrgentEntry(n)).status = "Pending"
               /\ now - Unwrap(UrgentEntry(n)).created_at > Unwrap(UrgentEntry(n)).ttl))
           => (UrgentEntry(n)' = UrgentEntry(n) /\ chan'[n] = chan[n])]_vars

(* C15 witness: a sweep has just run over an entry that is past its ttl    *)
(* and not Pending, and the entry is still there.                          *)
C15_Witness ==
  \E n \in UrgentNums :
    /\ IsSome(UrgentEntry(n))
    /\ Unwrap(UrgentEntry(n)).status # "Pending"
    /\ now - Unwrap(UrgentEntry(n)).created_at > Unwrap(UrgentEntry(n)).ttl
    /\ nextSweep > now

(* C16: assign_task on an entry whose status is Completed or Failed        *)
(* returns false and changes nothing: store and channels are as before.    *)
C16_AssignOnTerminalIsNoop ==
  \A n \in UrgentNums, a \in Agents :
    (IsSome(UrgentEntry(n)) /\ Terminal(Unwrap(UrgentEntry(n)).status)) =>
      LET r == assign_task(tasks, chan, Unwrap(UrgentEntry(n)).task.id, a, now) IN
      /\ ~r.ret
      /\ r.tasks = tasks
      /\ r.chan = chan

(* C17: submit_urgent adds an entry only if, at its check, some agent of   *)
(* the registry is online and advertises the task's capability; otherwise  *)
(* it fails with SchedulingImpossible and the urgent store is unchanged.   *)
C17_GateOnSubmit ==
  [][\A n \in UrgentNums :
       (sub[n].pc = "idle" /\ sub'[n].pc # "idle") =>
         LET id == Unwrap(sub'[n].tid)
             ok == \E a \in Agents :
                     /\ id.cap \in agentdb[a].capabilities
                     /\ agentdb[a].last_contact # None
                     /\ now - agentdb[a].last_contact[1] <= OnlineTimeout
         IN IF ok
            THEN sub'[n].pc = "added" /\ Contains(tasks', id)
            ELSE sub'[n].pc = "rejected" /\ tasks' = tasks]_vars

(* C17 witness: a submission was refused although an agent that is not     *)
(* online advertises its capability, and the store is empty.               *)
C17_Witness ==
  \E n \in UrgentNums :
    /\ sub[n].pc = "rejected" /\ tasks = <<>>
    /\ \E a \in Agents : /\ Unwrap(sub[n].tid).cap \in agentdb[a].capabilities
                         /\ agentdb[a].last_contact = None

(* C18: complete_task on an entry that has no assigned task fails with     *)
(* Conflict, leaves the entry's status and result as they were and sends   *)
(* nothing on the status channel.                                          *)
C18_CompleteUnassignedConflict ==
  \A n \in UrgentNums, success \in BOOLEAN, payload \in Payloads :
    (IsSome(UrgentEntry(n)) /\ Unwrap(UrgentEntry(n)).assigned_task = None) =>
      LET r == complete_task(tasks, chan, Unwrap(UrgentEntry(n)).task.id,
                             success, payload) IN
      /\ r.err = "Conflict"
      /\ r.tasks = tasks
      /\ r.chan = chan

(* C18 witness: a Pending entry without an assigned task whose submitter   *)
(* is subscribed, so that a send would be observed.                        *)
C18_Witness ==
  \E n \in UrgentNums :
    /\ IsSome(UrgentEntry(n))
    /\ Unwrap(UrgentEntry(n)).assigned_task = None
    /\ Unwrap(UrgentEntry(n)).status = "Pending"
    /\ sub[n].pc = "waiting" /\ chan[n].rx > 0


(* The outcomes of a final report, one per place the id can be.           *)
ReportInputs == TaskIdSet \X BOOLEAN \X Payloads

AppliedToUrgent(r, task_id, success, payload) ==
  /\ r.err = "none"
  /\ r.put = None
  /\ Len(r.tasks) = Len(tasks)
  /\ \A i \in 1..Len(tasks) :
       IF tasks[i].task.id = task_id
       THEN /\ r.tasks[i].status = IF success THEN "Completed" ELSE "Failed"
            /\ IsSome(r.tasks[i].assigned_task)
            /\ Unwrap(r.tasks[i].assigned_task).result = Some(payload)
       ELSE r.tasks[i] = tasks[i]

AppliedToAssigned(r, task_id, success, payload) ==
  /\ r.err = "none"
  /\ r.tasks = tasks
  /\ r.chan = chan
  /\ r.put = Some(report_change(assigned[make_key(task_id)], success, payload))

NothingApplied(r, e) ==
  /\ r.err = e
  /\ r.tasks = tasks
  /\ r.chan = chan
  /\ r.put = None

UnassignedEntry(task_id) ==
  \E i \in 1..Len(tasks) : tasks[i].task.id = task_id /\ tasks[i].assigned_task = None

(* C19 as stated: a final report is applied to the urgent store exactly   *)
(* when the urgent store owns the id, to the durable assigned tree when   *)
(* it does not, and fails with NotFound, changing no store, when the id   *)
(* is in neither.                                                          *)
C19_ReportRouting ==
  \A inp \in ReportInputs :
    LET task_id == inp[1]
        success == inp[2]
        payload == inp[3]
        r == post_task_resolution(tasks, chan, assigned, task_id, success, payload)
    IN IF Contains(tasks, task_id)
       THEN AppliedToUrgent(r, task_id, success, payload)
       ELSE IF make_key(task_id) \in DOMAIN assigned
       THEN AppliedToAssigned(r, task_id, success, payload)
       ELSE NothingApplied(r, "NotFound")

(* C19 amended: a final report is applied to the urgent store exactly     *)
(* when the urgent store owns the id and the entry has an assigned task;  *)
(* an owned entry nobody picked up makes the report fail with Conflict    *)
(* and changes no store; an id the urgent store does not own is applied   *)
(* to the durable assigned tree, or fails with NotFound, changing no      *)
(* store, when it is not there either.                                    *)
C19_ReportRoutingAssigned ==
  \A inp \in ReportInputs :
    LET task_id == inp[1]
        success == inp[2]
        payload == inp[3]
        r == post_task_resolution(tasks, chan, assigned, task_id, success, payload)
    IN IF UnassignedEntry(task_id)
       THEN NothingApplied(r, "Conflict")
       ELSE IF Contains(tasks, task_id)
       THEN AppliedToUrgent(r, task_id, success, payload)
       ELSE IF make_key(task_id) \in DOMAIN assigned
       THEN AppliedToAssigned(r, task_id, success, payload)
       ELSE NothingApplied(r, "NotFound")

(* Both stores hold a task a final report was applied to. *)
C19_Witness ==
  /\ \E i \in 1..Len(tasks) :
       /\ Terminal(tasks[i].status)
       /\ IsSome(tasks[i].assigned_task)
       /\ Unwrap(tasks[i].assigned_task).result # None
  /\ \E k \in DOMAIN assigned :
       Terminal(assigned[k].status) /\ assigned[k].result # None

(* C20: the AssignedTask that durable assign creates and stores in         *)
(* assigned has status Queued, the agent_id of the agent whose assign      *)
(* succeeded and assigned_at >= created_at.                                *)
C20_AssignedTaskIsQueued ==
  \A k \in DOMAIN assigned :
    /\ assigned[k].status = "Queued"
    /\ winners[assigned[k].id.id] = {assigned[k].agent_id}
    /\ assigned[k].assigned_at >= assigned[k].created_at

(* What archive_stale_tasks found in assigned when it started: with the    *)
(* archive empty at start-up, everything now in either tree or in hand.    *)
InHand ==
  IF arch.pc = "insert"
  THEN LET k == FirstKey(DOMAIN arch.todo) IN [x \in {k} |-> arch.todo[k]]
  ELSE EmptyTree

Before ==
  [k \in DOMAIN assigned \cup DOMAIN archived \cup DOMAIN InHand |->
     IF k \in DOMAIN assigned THEN assigned[k]
     ELSE IF k \in DOMAIN archived THEN archived[k] ELSE InHand[k]]

Due(task) == task.status # "Running" /\ task.assigned_at < now - ArchiveAge

ArchiveDone == arch.pc = "idle" /\ archived # EmptyTree

(* C21: archive_stale_tasks moves from assigned to archived exactly the    *)
(* entries with status other than Running and assigned_at before now minus *)
(* seven days; entries that are Running or were assigned within the last   *)
(* seven days stay in assigned unchanged at every step; once it is done a  *)
(* second scan finds nothing to move.                                      *)
C21_ArchiveExactlyStale ==
  /\ DOMAIN assigned \cap DOMAIN archived = {}
  /\ \A k \in DOMAIN Before :
       ~Due(Before[k]) => k \in DOMAIN assigned /\ assigned[k] = Before[k]
  /\ ArchiveDone =>
       /\ \A k \in DOMAIN Before :
            Due(Before[k]) => k \in DOMAIN archived /\ k \notin DOMAIN assigned
       /\ archive_scan(assigned, now) = EmptyTree

(* C21 witness: a finished run moved a stale entry and left behind a       *)
(* Running entry of the same age and an entry assigned exactly seven days  *)
(* before.                                                                 *)
C21_Witness ==
  /\ ArchiveDone
  /\ \E k \in DOMAIN assigned :
       assigned[k].status = "Running" /\ assigned[k].assigned_at < now - ArchiveAge
  /\ \E k \in DOMAIN assigned :
       assigned[k].status # "Running" /\ assigned[k].assigned_at = now - ArchiveAge

UrgentMatch(a) ==
  {i \in 1..Len(tasks) :
     tasks[i].assigned_task = None /\ tasks[i].task.id.cap \in agentdb[a].capabilities}

RegularMatch(a) ==
  find_assignable_regular(unassigned, agentdb[a].capabilities, agentdb[a].tier,
                          update_agent_last_contact(agentdb, a, now), now)

(* C22: a poll returns an urgent task whenever the urgent store has an     *)
(* unassigned entry for one of the agent's capabilities, whatever the      *)
(* regular queue holds; it returns a regular task, one of the              *)
(* find_assignable_regular result for the agent's capabilities and tier,   *)
(* only when there is no urgent match, and null only when both are empty.  *)
C22_PollUrgentFirst ==
  \A a \in Agents :
    LET r == fetch_task_non_urgent_handler(tasks, unassigned, agentdb, a, now) IN
    /\ r.offers # {}
    /\ UrgentMatch(a) # {} =>
         \A o \in r.offers : \E i \in UrgentMatch(a) : o = Some(tasks[i].task)
    /\ UrgentMatch(a) = {} /\ RegularMatch(a) # {} =>
         r.offers = {Some(task) : task \in RegularMatch(a)}
    /\ (None \in r.offers) = (UrgentMatch(a) = {} /\ RegularMatch(a) = {})

(* C22 witness: both queues have a task for one agent, and for another    *)
(* agent only the regular queue has one.                                   *)
C22_Witness ==
  /\ \E a \in Agents : UrgentMatch(a) # {} /\ RegularMatch(a) # {}
  /\ \E a \in Agents : UrgentMatch(a) = {} /\ RegularMatch(a) # {}

AgentCall(a) ==
  \/ PollUrgent(a)
  \/ Poll(a)
  \/ \E tid \in TaskIdSet : TakeAssign(a, tid)
  \/ \E caps \in SUBSET Caps, tier \in Tiers : UpdateAgentInfo(a, caps, tier)

(* C23: every authenticated call of an agent (poll_urgent, poll, take,     *)
(* info/update) sets the agent's stored last_contact to the time of the    *)
(* call, so the agent is online right after it.                            *)
C23_EveryCallStamps ==
  [][\A a \in Agents :
       AgentCall(a) =>
         /\ agentdb'[a].last_contact = Some(now)
         /\ is_online(agentdb'[a], now')]_vars

SilentFor(a) == now - Unwrap(agentdb[a].last_contact)

(* C24: is_online is true iff last_contact is set and now - last_contact   *)
(* is at most 120 s: true at exactly 120 s, false at 121 s and when        *)
(* last_contact is unset; it is computed from the record and the clock at  *)
(* the time of the call, and the submission gate sees the same value.      *)
C24_OnlineWithinTimeout ==
  /\ \A a \in Agents :
       /\ is_online(agentdb[a], now) =
            (agentdb[a].last_contact # None /\ SilentFor(a) <= 120)
       /\ agentdb[a].last_contact # None /\ SilentFor(a) = 120 => is_online(agentdb[a], now)
       /\ agentdb[a].last_contact # None /\ SilentFor(a) = 121 => ~is_online(agentdb[a], now)
       /\ agentdb[a].last_contact = None => ~is_online(agentdb[a], now)
  /\ \A cap \in Caps :
       has_potential_agents_for(cap, agentdb, now) =
         \E a \in Agents : /\ cap \in agentdb[a].capabilities
                            /\ agentdb[a].last_contact # None
                            /\ SilentFor(a) <= 120

(* C24 witness: one agent silent for exactly 120 s, another for 121 s. *)
C24_Witness ==
  \E a, b \in Agents :
    /\ agentdb[a].last_contact # None /\ SilentFor(a) = 120
    /\ agentdb[b].last_contact # None /\ SilentFor(b) = 121

(* C25: once delete_agent(uid) has returned, and nobody creates the agent  *)
(* again, uid is in neither the durable map nor the agent cache, whatever  *)
(* update_agent and get_agent calls for the same uid are in flight.        *)
C25_DeletedStaysAbsent ==
  \A u \in Agents :
    deleted[u] => u \notin DOMAIN sled_db /\ u \notin DOMAIN agent_cache

MatchesSome(patterns, cap) ==
  \E i \in 1..Len(patterns) :
    \/ patterns[i] = <<"*">>
    \/ /\ Len(patterns[i]) > 0
       /\ patterns[i][Len(patterns[i])] = "*"
       /\ Len(cap) >= Len(patterns[i]) - 1
       /\ \A j \in 1..(Len(patterns[i]) - 1) : cap[j] = patterns[i][j]
    \/ patterns[i] = cap

(* C26: verify_key(key, required_cap) succeeds iff the active tree holds a *)
(* record for key with is_revoked = false whose patterns match             *)
(* required_cap; in every other case it fails with Authorization.          *)
C26_VerifyIffActiveAndCapable ==
  \A key \in KeyIds, cap \in Caps :
    LET r == verify_key(keys_active, key, cap)
        good == /\ key \in DOMAIN keys_active
                /\ ~keys_active[key].is_revoked
                /\ MatchesSome(keys_active[key].capabilities, cap)
    IN /\ r \in {"ok", "Authorization"}
       /\ (r = "ok") = good

(* C26 witness: one submission was let through and one was denied, while   *)
(* the active tree holds a record marked revoked and one whose patterns    *)
(* do not cover every capability.                                          *)
C26_Witness ==
  /\ \E n \in TaskNums : sub[n].pc = "queued"
  /\ \E n \in TaskNums : sub[n].pc = "denied"
  /\ \E key \in DOMAIN keys_active : keys_active[key].is_revoked
  /\ \E key \in DOMAIN keys_active, cap \in Caps :
       ~keys_active[key].is_revoked /\ ~MatchesSome(keys_active[key].capabilities, cap)

(* C27: a revocation moves the record from active to archived atomically:  *)
(* in no reachable state, between the two writes and after a crash         *)
(* included, is a key in both trees, or a key that is being revoked in     *)
(* neither; a key that is only in archived is refused for every            *)
(* capability.                                                             *)
C27_RevokeMovesAtomically ==
  \A key \in KeyIds :
    /\ ~(key \in DOMAIN keys_active /\ key \in DOMAIN keys_archived)
    /\ kreq.id = Some(key) =>
         key \in DOMAIN keys_active \/ key \in DOMAIN keys_archived
    /\ key \in DOMAIN keys_archived /\ key \notin DOMAIN keys_active =>
         \A cap \in Caps : verify_key(keys_active, key, cap) = "Authorization"

CapProbe == probe # None /\ Unwrap(probe).fn = "has_capability"

(* C28: has_capability(patterns, cap) is true iff some pattern is "*", or  *)
(* ends with "*" and cap starts with the pattern less its last character,  *)
(* or equals cap; so ["*"] allows every cap, ["foo*"] allows "foobar" and  *)
(* ["foo"] does not.                                                       *)
C28_HasCapabilityMatches ==
  CapProbe =>
    LET c == Unwrap(probe) IN
    /\ c.result = MatchesSome(c.patterns, c.cap)
    /\ c.patterns = <<Star>> => c.result
    /\ c.patterns = <<FooStar>> /\ c.cap = FooBar => c.result
    /\ c.patterns = <<Foo>> /\ c.cap = FooBar => ~c.result

(* C28 witness: "foobar" was refused for the patterns "a*", "foo". *)
C28_Witness ==
  /\ CapProbe
  /\ Unwrap(probe).patterns = <<AStar, Foo>>
  /\ Unwrap(probe).cap = FooBar
  /\ ~Unwrap(probe).result

Known(task_id) ==
  \/ Contains(tasks, task_id)
  \/ make_key(task_id) \in DOMAIN unassigned
  \/ make_key(task_id) \in DOMAIN assigned

(* C29: poll_task_status gives a task's status or content only to the key  *)
(* the task was submitted with, in the durable trees and in the urgent     *)
(* store alike; any other key gets an authorization error and no content,  *)
(* and an id that is nowhere gets NotFound.                                *)
C29_PollNeedsOwnersKey ==
  \A task_id \in TaskIdSet, api_key \in KeyIds :
    LET r == poll_task_status(tasks, unassigned, assigned, task_id, api_key) IN
    /\ Known(task_id) /\ api_key # ClientKey(task_id.id) =>
         r.body = None /\ r.err = "Authorization"
    /\ ~Known(task_id) => r.body = None /\ r.err = "NotFound"

ErrorProbe == probe # None /\ Unwrap(probe).fn = "into_response"

(* C30: every error kind maps to its HTTP status: Authentication 401,      *)
(* Authorization 403, Validation, BadRequest and Parse 400, NotFound 404,  *)
(* Conflict 409, SchedulingImpossible 409 or 503, Database, Internal and   *)
(* Serialization 500; the status field of the error envelope carries the   *)
(* same number.                                                            *)
C30_StatusOfEveryKind ==
  ErrorProbe =>
    LET kind == Unwrap(probe).kind
        r == Unwrap(probe).response
    IN /\ kind = "Authentication" => r.status = 401
       /\ kind = "Authorization" => r.status = 403
       /\ kind \in {"Validation", "BadRequest", "Parse"} => r.status = 400
       /\ kind = "NotFound" => r.status = 404
       /\ kind = "Conflict" => r.status = 409
       /\ kind = "SchedulingImpossible" => r.status \in {409, 503}
       /\ kind \in {"Database", "Internal", "Serialization"} => r.status = 500
       /\ r.body.status = r.status

(* C30 witness: a Conflict was answered with 409 in the status line and in *)
(* the envelope.                                                           *)
C30_Witness ==
  /\ ErrorProbe
  /\ Unwrap(probe).kind = "Conflict"
  /\ Unwrap(probe).response.status = 409
  /\ Unwrap(probe).response.body.status = 409

LogProbe == probe # None /\ Unwrap(probe).fn = "should_log"

(* C31: should_log(e) is true exactly for the errors whose status code is  *)
(* 5xx, and false for every error whose status code is 4xx.                *)
C31_LoggedIffServerClass ==
  LogProbe =>
    LET r == Unwrap(probe) IN
    /\ r.logged <=> (r.status >= 500 /\ r.status <= 599)
    /\ (r.status >= 400 /\ r.status <= 499) => ~r.logged

(* C32: for every entry present in the urgent store, status is Pending     *)
(* exactly when assigned_task is none.                                     *)
C32_PendingIffUnassigned ==
  \A i \in 1..Len(tasks) :
    tasks[i].status = "Pending" <=> tasks[i].assigned_task = None

(* C32 witness: an entry that a second agent tried to take after its final *)
(* report: terminal status, an assigned task carrying the result.          *)
C32_Witness ==
  \E i \in 1..Len(tasks) :
    /\ Terminal(tasks[i].status)
    /\ IsSome(tasks[i].assigned_task)
    /\ \E a \in Agents :
         /\ a \notin winners[tasks[i].task.id.id]
         /\ Unwrap(tasks[i].assigned_task).agent_id = a

(* C33: the AssignedTask that the pick-up returns to the agent whose       *)
(* assign_task returned true has agent_id equal to that agent, whatever    *)
(* other agents' pick-up attempts on the same id ran between its           *)
(* assign_task step and its get_assigned_task step.                        *)
C33_WinnerGetsOwnAssignment ==
  [][\A a \in Agents :
       TakeGet(a) =>
         LET r == try_pick_up_urgent_get(tasks, Unwrap(ag[a].tid)) IN
         IsSome(r.picked) => Unwrap(r.picked).agent_id = a]_vars

(* C34: once report_regular has written a final status and the result of a *)
(* durable task, the stored record keeps that status and result when a     *)
(* concurrent update_regular on the same id writes its copy back.          *)
C34_ReportSurvivesUpdate ==
  [][\A a \in Agents :
       (ag[a].pc = "updating" /\ PutAssigned(a)) =>
         \A k \in DOMAIN assigned :
           Terminal(assigned[k].status) =>
             /\ assigned'[k].status = assigned[k].status
             /\ assigned'[k].result = assigned[k].result]_vars

SameInfo(old, new) ==
  new.capabilities = old.capabilities /\ new.tier = old.tier

(* C35: a poll or report changes only last_contact of the stored agent     *)
(* record: whatever info/update call for the same agent ran since the      *)
(* request was authenticated, the stored capabilities and tier stay those  *)
(* written by info/update.                                                 *)
C35_PollChangesOnlyLastContact ==
  [][\A p \in Procs :
       areq[p].then = "poll" =>
         /\ UpdateDb(p) => SameInfo(sled_db[areq[p].uid], sled_db'[areq[p].uid])
         /\ UpdateCache(p) =>
              SameInfo(agent_cache[areq[p].uid], agent_cache'[areq[p].uid])]_vars

TopAgentsFor(cap) ==
  {a \in Agents : /\ agentdb[a] \in all_online_agents_for(cap, agentdb, now)
                  /\ \A b \in Agents :
                       agentdb[b] \in all_online_agents_for(cap, agentdb, now) =>
                         agentdb[b].tier <= agentdb[a].tier}

(* C37: tier suppression never hides a regular task from every capable     *)
(* agent: for an unassigned task of capability C with at least one online  *)
(* agent advertising C, the find_assignable_regular result of an online    *)
(* agent of the highest tier among them contains the task.                 *)
C37_TopTierSeesTask ==
  \A k \in DOMAIN unassigned :
    LET task == unassigned[k] IN
    /\ (all_online_agents_for(task.id.cap, agentdb, now) # {} =>
          TopAgentsFor(task.id.cap) # {})
    /\ \A a \in TopAgentsFor(task.id.cap) :
         task \in find_assignable_regular(unassigned, agentdb[a].capabilities,
                                          agentdb[a].tier, agentdb, now)

(* C37 witness: two online agents of different tiers advertise the         *)
(* capability of an unassigned task; the lower one is not offered the      *)
(* task, the higher one is.                                                *)
C37_Witness ==
  \E k \in DOMAIN unassigned, a, b \in Agents :
    LET task == unassigned[k] IN
    /\ a \in TopAgentsFor(task.id.cap)
    /\ agentdb[b] \in all_online_agents_for(task.id.cap, agentdb, now)
    /\ agentdb[b].tier < agentdb[a].tier
    /\ task \notin find_assignable_regular(unassigned, agentdb[b].capabilities,
                                            agentdb[b].tier, agentdb, now)
    /\ task \in find_assignable_regular(unassigned, agentdb[a].capabilities,
                                         agentdb[a].tier, agentdb, now)

(* The agent recorded as the task's agent_id, in whichever store holds it. *)
RecordedAgent(task_id) ==
  IF IsSome(get_assigned_task(tasks, task_id))
  THEN Some(Unwrap(get_assigned_task(tasks, task_id)).agent_id)
  ELSE IF IsSome(get_assigned(assigned, task_id))
  THEN Some(Unwrap(get_assigned(assigned, task_id)).agent_id)
  ELSE None

(* C38: a final report for a task is applied only when it is sent by the   *)
(* agent recorded as the task's agent_id: the same request from another    *)
(* authenticated agent changes neither the urgent entry nor the durable    *)
(* record.                                                                 *)
C38_OnlyOwnerReports ==
  [][\A a \in Agents, tid \in TaskIdSet, success \in BOOLEAN, payload \in Payloads :
       (/\ PostTaskResolution(a, tid, success, payload)
        /\ IsSome(RecordedAgent(tid))
        /\ RecordedAgent(tid) # Some(a)) =>
         /\ tasks' = tasks
         /\ ag'[a].pc # "reporting"]_vars

(* The keys whose revocation through update_key has completed. *)
RevokedKeys ==
  {id \in DOMAIN keys_archived : id \notin DOMAIN keys_active /\ kreq.pc = "idle"}

(* C39: after a predefined client key has been revoked through update_key, *)
(* an initialize_from_list with a list that contains the key does not make *)
(* verify accept the key again and does not leave the key in both the      *)
(* active and the archived tree.                                           *)
C39_RevokedStaysRevoked ==
  [][InitializeFromList =>
       \A id \in RevokedKeys \cap PredefinedKeys :
         /\ \A cap \in Caps : verify_key(keys_active', id, cap) # "ok"
         /\ ~(id \in DOMAIN keys_active' /\ id \in DOMAIN keys_archived')]_vars

(* C40: list_unassigned_for_capability(cap) returns exactly the unassigned *)
(* tasks whose TaskId.cap equals cap, also for capabilities that contain   *)
(* the key separator: a task of capability "a|b" is not returned for "a".  *)
C40_ListExactlyCapability ==
  \A cap \in Caps :
    list_unassigned_for_capability(unassigned, cap) =
      {unassigned[k] : k \in {x \in DOMAIN unassigned : unassigned[x].id.cap = cap}}

====
